---------------------------- MODULE Spec2Model ----------------------------
(***************************************************************************)
(* A model of the memory tiers of the personal assistant:                  *)
(*   - InMemoryVectorStore        (src/app/memory/vector_store.py)         *)
(*   - ConversationMemory         (src/app/memory/conversation_memory.py)  *)
(*   - PersistentConversationMemory (src/app/memory/persistent.py)         *)
(*                                                                         *)
(* Abstractions, all stated here once:                                     *)
(*   - memory ids are str(n) of a counter in the code; str is injective on *)
(*     the naturals, so an id is modelled as the natural n itself;         *)
(*   - embeddings are integer vectors whose Euclidean norm is an integer,  *)
(*     so that cosine similarity is an exact rational; a similarity is     *)
(*     held as the integer 100 * cos (0.3 is 30, 1.0 is 100);              *)
(*   - datetime.now() is the variable now, advanced by Tick and never      *)
(*     decreasing; two operations without a Tick between them read the     *)
(*     same time (equal created_at);                                       *)
(*   - MemoryEntry.metadata is an opaque payload no operation reads or     *)
(*     writes after creation, and is left out.                             *)
(***************************************************************************)
EXTENDS Integers, Sequences, FiniteSets, TLC

\* ------------------------------------------------------------------ bounds

\* InMemoryVectorStore(max_size): 1000 in the code, scaled down.
MaxSize == 2
\* Number of store calls explored (caps the _next_id counter).
MaxStores == 3
\* Largest value of the clock.
MaxTime == 1
\* Largest access_count explored (caps searches that hit).
MaxAccess == 1
\* Largest top_k passed to search.
MaxTopK == 2
\* config.settings.embedding_dimension: 384 in the code, scaled down.
EmbeddingDimension == 2
\* config.settings.max_conversation_history: 10 in the code, scaled down.
MaxHistory == 2
\* Number of add_message calls explored per session between two clears.
MaxAppends == 3
\* Number of rows explored in the messages table.
MaxRows == 3
\* The most rows the messages table holds in the runs of one chat session.
MaxChatRows == 4
\* Largest value of the database clock.
MaxDbTime == 2

Users == {"alice", "bob"}

\* What callers pass to store: <<text, embedding>>.  The first three have the
\* configured dimension (one of them is all-zero), the last one does not.
StoreInputs ==
    { <<"likes tea", <<1, 0>>>>,
      <<"likes hiking", <<3, 4>>>>,
      <<"blank", <<0, 0>>>>,
      <<"other model", <<1, 2, 2>>>> }

Sessions == {"s1", "s2"}

\* ChatMessage(role, content) values passed to add_message and save_message.
ChatMessages ==
    { [role |-> "user", content |-> "I like tea"],
      [role |-> "assistant", content |-> "Noted"] }

\* The limit argument of get_recent_messages: 0 stands for None.
Limits == { 0, 1 }

\* Query embeddings passed to search.
Queries == { <<1, 0>>, <<0, 0>> }

\* min_similarity values passed to search, as 100 * cos.
MinSimilarities == { 30, 100 }

\* ----------------------------------------------------------------- state

VARIABLES
    memories,        \* InMemoryVectorStore._memories: id -> MemoryEntry
    user_memories,   \* InMemoryVectorStore._user_memories: user_id -> list of ids
    next_id,         \* InMemoryVectorStore._next_id
    now,             \* the value datetime.now() returns
    issued,          \* history: the ids returned by store, in call order
    ret,             \* the last vector-store call: its arguments and its result
    storage,         \* ConversationMemory._storage: session_id -> list of messages
    appended,        \* history: every message appended to a session since its last clear
    cret,            \* the last ConversationMemory call: its arguments and its result
    messages,        \* the rows of the messages table, in insertion order
    db_now,          \* the value func.now() gives the next inserted row
    pret,            \* the last PersistentConversationMemory call: arguments, result
    sem,             \* the SemanticMemory coroutines in flight: task -> its position
    chat,            \* the chat requests in flight: task -> the handler's position
    ext              \* the last call of a pure function: its arguments and its result

storeVars == <<memories, user_memories, next_id, now, issued, ret>>
convVars == <<storage, appended, cret>>
dbVars == <<messages, db_now, pret>>
semVars == <<sem>>
chatVars == <<chat>>
extVars == <<ext>>
vars == <<memories, user_memories, next_id, now, issued, ret, storage, appended, cret,
          messages, db_now, pret, sem, chat, ext>>

\* ----------------------------------------------------- dictionaries, lists

\* d[k] = v of a Python dict.
Put(d, k, v) == [x \in (DOMAIN d) \cup {k} |-> IF x = k THEN v ELSE d[x]]

\* del d[k] of a Python dict.
Del(d, k) == [x \in (DOMAIN d) \ {k} |-> d[x]]

\* [x for x in s if x != v]
RECURSIVE Without(_, _)
Without(s, v) ==
    IF s = <<>> THEN <<>>
    ELSE IF Head(s) = v THEN Without(Tail(s), v)
    ELSE <<Head(s)>> \o Without(Tail(s), v)

\* s[:k] for k >= 0.
Take(s, k) == SubSeq(s, 1, IF k < Len(s) THEN k ELSE Len(s))

\* s[-k:] for k >= 1.
LastN(s, k) == IF Len(s) <= k THEN s ELSE SubSeq(s, Len(s) - k + 1, Len(s))

\* ------------------------------------------------------- cosine similarity

RECURSIVE Dot(_, _)
Dot(a, b) == IF a = <<>> THEN 0 ELSE Head(a) * Head(b) + Dot(Tail(a), Tail(b))

\* np.linalg.norm, exact on the vectors of the model (their norms are integers).
Norm(v) == LET s == Dot(v, v) IN CHOOSE r \in 0..s : r * r = s

\* np.dot(query_vec, memory_vec) / (query_norm * memory_norm), as 100 * cos.
\* Only applied to vectors of equal length and non-zero norm.
CosineSimilarity(q, m) == (100 * Dot(q, m)) \div (Norm(q) * Norm(m))


\* ------------------------------------------------------ InMemoryVectorStore

\* MemoryEntry(id, text, embedding, user_id, metadata, created_at) with the
\* dataclass defaults access_count = 0 and last_accessed = None (here <<>>).
MemoryEntry(id, text, embedding, user_id, created_at) ==
    [ id |-> id, text |-> text, embedding |-> embedding, user_id |-> user_id,
      created_at |-> created_at, access_count |-> 0, last_accessed |-> <<>> ]

\* The key of _evict_oldest's min(): (e.created_at, -e.access_count).
EvictionKey(e) == <<e.created_at, 0 - e.access_count>>

\* Python's tuple comparison a < b on pairs.
KeyLess(a, b) == a[1] < b[1] \/ (a[1] = b[1] /\ a[2] < b[2])

\* Oldest that takes the last entry, in insertion order, among those with the
\* least key.
OldestTakesLast(mem) ==
    CHOOSE id \in DOMAIN mem :
        \A o \in DOMAIN mem :
            /\ ~KeyLess(EvictionKey(mem[o]), EvictionKey(mem[id]))
            /\ (EvictionKey(mem[o]) = EvictionKey(mem[id]) => id >= o)

\* min(self._memories.values(), key=...): the first entry, in the dict's
\* insertion order, whose key no other entry's key is below.  Entries are
\* inserted in id order and an id is never inserted twice, so the insertion
\* order is the order of the ids.
Oldest(mem) ==
    CHOOSE id \in DOMAIN mem :
        \A o \in DOMAIN mem :
            /\ ~KeyLess(EvictionKey(mem[o]), EvictionKey(mem[id]))
            /\ (EvictionKey(mem[o]) = EvictionKey(mem[id]) => id <= o)

\* DeleteIn that forgets the user's index list.
DeleteInKeepsIndex(st, memory_id) ==
    IF memory_id \notin DOMAIN st.memories
    THEN [ store |-> st, found |-> FALSE ]
    ELSE [ store |-> [ memories |-> Del(st.memories, memory_id),
                       user_memories |-> st.user_memories ],
           found |-> TRUE ]

\* delete(memory_id) on the store st = [memories, user_memories]:
\* the store afterwards and the flag returned.
DeleteIn(st, memory_id) ==
    IF memory_id \notin DOMAIN st.memories
    THEN [ store |-> st, found |-> FALSE ]
    ELSE LET user_id == st.memories[memory_id].user_id
             um == IF user_id \in DOMAIN st.user_memories
                   THEN [st.user_memories EXCEPT ![user_id] = Without(@, memory_id)]
                   ELSE st.user_memories
         IN [ store |-> [ memories |-> Del(st.memories, memory_id),
                          user_memories |-> um ],
              found |-> TRUE ]

\* _evict_oldest(): the store afterwards and the ids it removed.
EvictOldest(st) ==
    IF DOMAIN st.memories = {}
    THEN [ store |-> st, evicted |-> {} ]
    ELSE LET oldest == Oldest(st.memories)
         IN [ store |-> DeleteIn(st, oldest).store, evicted |-> {oldest} ]

\* OverCapacity with the test off by one: eviction one insert too late.
OverCapacityLate(mem, max_size) == Cardinality(DOMAIN mem) > max_size + 1

\* OverCapacity with >= for >: eviction one insert too early.
OverCapacityEarly(mem, max_size) == Cardinality(DOMAIN mem) >= max_size

\* The test of store() that triggers eviction: len(self._memories) > self.max_size.
OverCapacity(mem, max_size) == Cardinality(DOMAIN mem) > max_size

\* Registered that leaves the index as it is.
RegisteredNowhere(um, user_id, memory_id) == um

\* The list store() appends the new id to: self._user_memories[user_id],
\* created empty when the user has none.
Registered(um, user_id, memory_id) ==
    LET um1 == IF user_id \in DOMAIN um THEN um ELSE Put(um, user_id, <<>>)
    IN [um1 EXCEPT ![user_id] = Append(@, memory_id)]

\* FreshId taken from the number of entries held instead of the counter.
FreshIdFromSize(n, mem) == Cardinality(DOMAIN mem)

\* The id store() gives the new entry: str(self._next_id).
FreshId(n, mem) == n

\* StoreIn whose eviction looks only at the entries of the inserting user.
StoreInEvictsOwn(st, n, text, embedding, user_id, t) ==
    LET memory_id == n
        entry == MemoryEntry(memory_id, text, embedding, user_id, t)
        st1 == [ memories |-> Put(st.memories, memory_id, entry),
                 user_memories |-> Registered(st.user_memories, user_id, memory_id) ]
        own == { id \in DOMAIN st1.memories : st1.memories[id].user_id = user_id }
        victim == Oldest([id \in own |-> st1.memories[id]])
        ev == IF OverCapacity(st1.memories, MaxSize)
              THEN [ store |-> DeleteIn(st1, victim).store, evicted |-> {victim} ]
              ELSE [ store |-> st1, evicted |-> {} ]
    IN [ store |-> ev.store, id |-> memory_id, evicted |-> ev.evicted, entry |-> entry,
         victims |-> { st1.memories[v].user_id : v \in ev.evicted } ]

\* store(text, embedding, user_id): the store afterwards, the id returned and
\* the ids evicted with the users they belonged to.  No argument is validated.
StoreIn(st, n, text, embedding, user_id, t) ==
    LET memory_id == FreshId(n, st.memories)
        entry == MemoryEntry(memory_id, text, embedding, user_id, t)
        st1 == [ memories |-> Put(st.memories, memory_id, entry),
                 user_memories |-> Registered(st.user_memories, user_id, memory_id) ]
        ev == IF OverCapacity(st1.memories, MaxSize)
              THEN EvictOldest(st1)
              ELSE [ store |-> st1, evicted |-> {} ]
    IN [ store |-> ev.store, id |-> memory_id, evicted |-> ev.evicted, entry |-> entry,
         victims |-> { st1.memories[v].user_id : v \in ev.evicted } ]

\* Touch that only stamps the time and leaves the counter.
TouchNoCount(entry, t) == [entry EXCEPT !.last_accessed = <<t>>]

\* The access tracking of search(): entry.access_count += 1 and
\* entry.last_accessed = datetime.now().
Touch(entry, t) ==
    [entry EXCEPT !.access_count = @ + 1, !.last_accessed = <<t>>]

\* SearchedIds that iterates over every user's list.
RECURSIVE Flatten(_, _)
Flatten(um, us) ==
    IF us = {} THEN <<>>
    ELSE LET u == CHOOSE x \in us : TRUE IN um[u] \o Flatten(um, us \ {u})

SearchedIdsAllUsers(st, user_id) == Flatten(st.user_memories, DOMAIN st.user_memories)

\* The ids search() iterates over: self._user_memories[user_id].
SearchedIds(st, user_id) == st.user_memories[user_id]

\* Skipped that counts the skipped entry as accessed.
SkippedTouched(entry, t) == [entry EXCEPT !.access_count = @ + 1, !.last_accessed = <<t>>]

\* What search() does to an entry whose memory_norm is 0: continue, the
\* entry stays as it is.
Skipped(entry, t) == entry

\* The loop of search() from position i of ids.  acc = [raised, hits, memories]:
\* hits are the (id, score) appended to results so far.  np.dot raises
\* ValueError on vectors of different lengths, which ends the call with the
\* access counters touched so far kept.
RECURSIVE Scan(_, _, _, _, _, _)
Scan(ids, i, q, min_similarity, t, acc) ==
    IF i > Len(ids) \/ acc.raised THEN acc
    ELSE LET memory_id == ids[i] IN
         IF memory_id \notin DOMAIN acc.memories
         THEN Scan(ids, i + 1, q, min_similarity, t, acc)
         ELSE LET entry == acc.memories[memory_id] IN
              IF Norm(entry.embedding) = 0
              THEN Scan(ids, i + 1, q, min_similarity, t,
                        [acc EXCEPT !.memories[memory_id] = Skipped(@, t)])
              ELSE IF Len(entry.embedding) # Len(q)
              THEN [acc EXCEPT !.raised = TRUE]
              ELSE LET similarity == CosineSimilarity(q, entry.embedding) IN
                   IF similarity >= min_similarity
                   THEN Scan(ids, i + 1, q, min_similarity, t,
                             [ raised |-> FALSE,
                               hits |-> Append(acc.hits,
                                               [id |-> memory_id, score |-> similarity]),
                               memories |-> [acc.memories EXCEPT
                                               ![memory_id] = Touch(@, t)] ])
                   ELSE Scan(ids, i + 1, q, min_similarity, t, acc)

\* x placed into the list s, sorted by descending score, behind every element
\* whose score is at least x's: list.sort(reverse=True) is stable.
RECURSIVE InsertDesc(_, _)
InsertDesc(s, x) ==
    IF s = <<>> THEN <<x>>
    ELSE IF Head(s).score >= x.score THEN <<Head(s)>> \o InsertDesc(Tail(s), x)
    ELSE <<x>> \o s

\* SortDesc left out: the results stay in index order.
SortMissing(s) == s

\* results.sort(key=lambda x: x[1], reverse=True)
RECURSIVE SortDesc(_)
SortDesc(s) ==
    IF s = <<>> THEN <<>>
    ELSE InsertDesc(SortDesc(SubSeq(s, 1, Len(s) - 1)), s[Len(s)])

\* results[:top_k]
Truncated(results, top_k) == Take(results, top_k)

\* search(query_embedding, user_id, top_k, min_similarity): the entries'
\* map afterwards, whether the call raised, and the (entry, score) returned.
\* The entries returned are the objects of the store, so they show the
\* access tracking of this call.
SearchIn(st, q, user_id, top_k, min_similarity, t) ==
    IF user_id \notin DOMAIN st.user_memories
    THEN [ memories |-> st.memories, raised |-> FALSE, results |-> <<>> ]
    ELSE IF Norm(q) = 0
    THEN [ memories |-> st.memories, raised |-> FALSE, results |-> <<>> ]
    ELSE LET out == Scan(SearchedIds(st, user_id), 1, q, min_similarity, t,
                         [ raised |-> FALSE, hits |-> <<>>, memories |-> st.memories ])
             top == Truncated(SortDesc(out.hits), top_k)
         IN [ memories |-> out.memories,
              raised |-> out.raised,
              results |-> IF out.raised THEN <<>>
                          ELSE [ i \in 1..Len(top) |->
                                   [ entry |-> out.memories[top[i].id],
                                     score |-> top[i].score ] ] ]

\* get_user_memories(user_id)
UserMemories(st, user_id) ==
    IF user_id \notin DOMAIN st.user_memories THEN <<>>
    ELSE LET ids == st.user_memories[user_id]
             RECURSIVE Present(_)
             Present(s) ==
                 IF s = <<>> THEN <<>>
                 ELSE IF Head(s) \in DOMAIN st.memories
                 THEN <<st.memories[Head(s)]>> \o Present(Tail(s))
                 ELSE Present(Tail(s))
         IN Present(ids)

\* The loop of clear_user(): del self._memories[memory_id] for each id of the
\* user's list; del raises KeyError on an id that is not in the map, which
\* ends the call with the entries deleted so far gone and the list kept.
RECURSIVE ClearLoop(_, _)
ClearLoop(mem, ids) ==
    IF ids = <<>> THEN [ memories |-> mem, raised |-> FALSE ]
    ELSE IF Head(ids) \notin DOMAIN mem THEN [ memories |-> mem, raised |-> TRUE ]
    ELSE ClearLoop(Del(mem, Head(ids)), Tail(ids))

\* ClearUserIn that leaves the user's index list in place.
ClearUserInKeepsIndex(st, user_id) ==
    IF user_id \notin DOMAIN st.user_memories
    THEN [ store |-> st, raised |-> FALSE ]
    ELSE LET out == ClearLoop(st.memories, st.user_memories[user_id])
         IN [ store |-> [ memories |-> out.memories,
                          user_memories |-> st.user_memories ],
              raised |-> out.raised ]

\* clear_user(user_id): the store afterwards and whether the call raised.
ClearUserIn(st, user_id) ==
    IF user_id \notin DOMAIN st.user_memories
    THEN [ store |-> st, raised |-> FALSE ]
    ELSE LET out == ClearLoop(st.memories, st.user_memories[user_id])
         IN [ store |-> [ memories |-> out.memories,
                          user_memories |-> IF out.raised THEN st.user_memories
                                            ELSE Del(st.user_memories, user_id) ],
              raised |-> out.raised ]

TheStore == [ memories |-> memories, user_memories |-> user_memories ]

\* InMemoryVectorStore.__init__
StoreInit ==
    /\ memories = <<>>
    /\ user_memories = <<>>
    /\ next_id = 0
    /\ now = 0
    /\ issued = <<>>
    /\ ret = [ op |-> "init" ]

\* Time passes between two calls.
Tick ==
    /\ now < MaxTime
    /\ now' = now + 1
    /\ ret' = [ op |-> "tick" ]
    /\ UNCHANGED <<memories, user_memories, next_id, issued>>
    /\ UNCHANGED <<convVars, dbVars, semVars, chatVars, extVars>>

Store(text, embedding, user_id) ==
    /\ next_id < MaxStores
    /\ LET out == StoreIn(TheStore, next_id, text, embedding, user_id, now) IN
        /\ memories' = out.store.memories
        /\ user_memories' = out.store.user_memories
        /\ next_id' = next_id + 1
        /\ issued' = Append(issued, out.id)
        /\ ret' = [ op |-> "store", id |-> out.id, user_id |-> user_id,
                    entry |-> out.entry, evicted |-> out.evicted,
                    victims |-> out.victims ]
    /\ UNCHANGED now
    /\ UNCHANGED <<convVars, dbVars, semVars, chatVars, extVars>>

Search(q, user_id, top_k, min_similarity) ==
    /\ \A id \in DOMAIN memories : memories[id].access_count < MaxAccess
    /\ LET out == SearchIn(TheStore, q, user_id, top_k, min_similarity, now) IN
        /\ memories' = out.memories
        /\ ret' = [ op |-> "search", query |-> q, user_id |-> user_id,
                    top_k |-> top_k, min_similarity |-> min_similarity,
                    raised |-> out.raised, results |-> out.results ]
    /\ UNCHANGED <<user_memories, next_id, now, issued>>
    /\ UNCHANGED <<convVars, dbVars, semVars, chatVars, extVars>>

\* get(memory_id): the entry (here <<entry>>) or None (here <<>>).
Get(memory_id) ==
    /\ ret' = [ op |-> "get", id |-> memory_id,
                found |-> memory_id \in DOMAIN memories,
                entry |-> IF memory_id \in DOMAIN memories
                          THEN <<memories[memory_id]>> ELSE <<>> ]
    /\ UNCHANGED <<memories, user_memories, next_id, now, issued>>
    /\ UNCHANGED <<convVars, dbVars, semVars, chatVars, extVars>>

Delete(memory_id) ==
    /\ LET out == DeleteIn(TheStore, memory_id) IN
        /\ memories' = out.store.memories
        /\ user_memories' = out.store.user_memories
        /\ ret' = [ op |-> "delete", id |-> memory_id, found |-> out.found ]
    /\ UNCHANGED <<next_id, now, issued>>
    /\ UNCHANGED <<convVars, dbVars, semVars, chatVars, extVars>>

GetUserMemories(user_id) ==
    /\ ret' = [ op |-> "get_user_memories", user_id |-> user_id,
                entries |-> UserMemories(TheStore, user_id) ]
    /\ UNCHANGED <<memories, user_memories, next_id, now, issued>>
    /\ UNCHANGED <<convVars, dbVars, semVars, chatVars, extVars>>

ClearUser(user_id) ==
    /\ LET out == ClearUserIn(TheStore, user_id) IN
        /\ memories' = out.store.memories
        /\ user_memories' = out.store.user_memories
        /\ ret' = [ op |-> "clear_user", user_id |-> user_id, raised |-> out.raised,
                    removed |-> (DOMAIN memories) \ (DOMAIN out.store.memories) ]
    /\ UNCHANGED <<next_id, now, issued>>
    /\ UNCHANGED <<convVars, dbVars, semVars, chatVars, extVars>>

\* ------------------------------------------------------ ConversationMemory

\* self._storage.get(session_id, [])
Stored(st, session_id) == IF session_id \in DOMAIN st THEN st[session_id] ELSE <<>>

\* Trimmed that keeps the oldest max_history messages instead of the newest.
TrimmedOldest(history, max_history) == Take(history, max_history)

\* The trim of add_message(): the list itself while it has at most max_history
\* messages, otherwise self._storage[session_id][-self.max_history:].
Trimmed(history, max_history) ==
    IF Len(history) > max_history THEN LastN(history, max_history) ELSE history

\* add_message(session_id, message) on the dict st.
AddMessageIn(st, session_id, message, max_history) ==
    LET st1 == IF session_id \in DOMAIN st THEN st ELSE Put(st, session_id, <<>>)
        st2 == [st1 EXCEPT ![session_id] = Append(@, message)]
    IN [st2 EXCEPT ![session_id] = Trimmed(@, max_history)]

\* ConversationMemory.__init__
ConvInit ==
    /\ storage = <<>>
    /\ appended = [s \in Sessions |-> <<>>]
    /\ cret = [ op |-> "init" ]

AddMessage(session_id, message) ==
    /\ Len(appended[session_id]) < MaxAppends
    /\ storage' = AddMessageIn(storage, session_id, message, MaxHistory)
    /\ appended' = [appended EXCEPT ![session_id] = Append(@, message)]
    /\ cret' = [ op |-> "add_message", session_id |-> session_id ]
    /\ UNCHANGED <<storeVars, dbVars, semVars, chatVars, extVars>>

GetHistory(session_id) ==
    /\ cret' = [ op |-> "get_history", session_id |-> session_id,
                 result |-> Stored(storage, session_id) ]
    /\ UNCHANGED <<storage, appended>>
    /\ UNCHANGED <<storeVars, dbVars, semVars, chatVars, extVars>>

\* Clear that empties the session's list and keeps its key.
ClearKeepsKey(session_id) ==
    /\ storage' = IF session_id \in DOMAIN storage
                  THEN [storage EXCEPT ![session_id] = <<>>]
                  ELSE storage
    /\ appended' = [appended EXCEPT ![session_id] = <<>>]
    /\ cret' = [ op |-> "clear", session_id |-> session_id,
                 existed |-> session_id \in DOMAIN storage ]
    /\ UNCHANGED <<storeVars, dbVars, semVars, chatVars, extVars>>

\* clear(session_id): the key is deleted when it is there.
Clear(session_id) ==
    /\ storage' = IF session_id \in DOMAIN storage THEN Del(storage, session_id)
                  ELSE storage
    /\ appended' = [appended EXCEPT ![session_id] = <<>>]
    /\ cret' = [ op |-> "clear", session_id |-> session_id,
                 existed |-> session_id \in DOMAIN storage ]
    /\ UNCHANGED <<storeVars, dbVars, semVars, chatVars, extVars>>

GetMessageCount(session_id) ==
    /\ cret' = [ op |-> "get_message_count", session_id |-> session_id,
                 result |-> Len(Stored(storage, session_id)) ]
    /\ UNCHANGED <<storage, appended>>
    /\ UNCHANGED <<storeVars, dbVars, semVars, chatVars, extVars>>

HasSession(session_id) ==
    /\ cret' = [ op |-> "has_session", session_id |-> session_id,
                 result |-> session_id \in DOMAIN storage ]
    /\ UNCHANGED <<storage, appended>>
    /\ UNCHANGED <<storeVars, dbVars, semVars, chatVars, extVars>>

\* -------------------------------------------- PersistentConversationMemory

\* Message(session_id, role, content) with timestamp = server_default func.now().
Message(session_id, role, content, timestamp) ==
    [ session_id |-> session_id, role |-> role, content |-> content,
      timestamp |-> timestamp ]

\* db.query(Message).filter(Message.session_id == session_id), in insertion order.
RECURSIVE RowsOf(_, _)
RowsOf(table, session_id) ==
    IF table = <<>> THEN <<>>
    ELSE IF Head(table).session_id = session_id
    THEN <<Head(table)>> \o RowsOf(Tail(table), session_id)
    ELSE RowsOf(Tail(table), session_id)

\* .order_by(Message.timestamp.asc()): every order of the rows in which the
\* timestamps do not decrease.  SQL leaves the order of rows with equal
\* timestamps open.
OrderedByTimestamp(rows) ==
    LET n == Len(rows)
        perms == { p \in [1..n -> 1..n] : \A i, j \in 1..n : i # j => p[i] # p[j] }
    IN { [i \in 1..n |-> rows[p[i]]] : p \in
           { q \in perms : \A i, j \in 1..n :
                 i < j => rows[q[i]].timestamp <= rows[q[j]].timestamp } }

\* .limit(limit)
Limited(rows, limit) == Take(rows, limit)

\* [ChatMessage(role=msg.role, content=msg.content) for msg in messages]
AsChatMessages(rows) ==
    [ i \in 1..Len(rows) |-> [role |-> rows[i].role, content |-> rows[i].content] ]

\* limit = limit or self.max_history
EffectiveLimit(limit, max_history) == IF limit = 0 THEN max_history ELSE limit

\* What get_recent_messages(session_id, limit) can return from the table when
\* the database answers.
RecentMessages(table, session_id, limit, max_history) ==
    { AsChatMessages(Limited(ordered, EffectiveLimit(limit, max_history))) :
        ordered \in OrderedByTimestamp(RowsOf(table, session_id)) }

\* RowsNotOf without the filter: the delete empties the table.
RowsNotOfAnySession(table, session_id) == <<>>

\* .delete() of the rows of session_id.
RECURSIVE RowsNotOf(_, _)
RowsNotOf(table, session_id) ==
    IF table = <<>> THEN <<>>
    ELSE IF Head(table).session_id = session_id THEN RowsNotOf(Tail(table), session_id)
    ELSE <<Head(table)>> \o RowsNotOf(Tail(table), session_id)

DbInit ==
    /\ messages = <<>>
    /\ db_now = 0
    /\ pret = [ op |-> "init" ]

\* Time passes on the database server.
DbTick ==
    /\ db_now < MaxDbTime
    /\ db_now' = db_now + 1
    /\ pret' = [ op |-> "tick" ]
    /\ UNCHANGED messages
    /\ UNCHANGED <<storeVars, convVars, semVars, chatVars, extVars>>

\* save_message(session_id, role, content); db_ok is whether the database
\* accepts the insert.  On failure the transaction is rolled back and the
\* exception is raised again.
SaveMessage(session_id, role, content, db_ok) ==
    /\ Len(messages) < MaxRows
    /\ messages' = IF db_ok
                   THEN Append(messages, Message(session_id, role, content, db_now))
                   ELSE messages
    /\ pret' = [ op |-> "save_message", session_id |-> session_id, raised |-> ~db_ok ]
    /\ UNCHANGED db_now
    /\ UNCHANGED <<storeVars, convVars, semVars, chatVars, extVars>>

\* get_recent_messages(session_id, limit); on a database error it returns [].
GetRecentMessages(session_id, limit, db_ok) ==
    /\ \E result \in IF db_ok
                     THEN RecentMessages(messages, session_id, limit, MaxHistory)
                     ELSE { <<>> } :
          pret' = [ op |-> "get_recent_messages", session_id |-> session_id,
                    limit |-> limit, db_error |-> ~db_ok, result |-> result ]
    /\ UNCHANGED <<messages, db_now>>
    /\ UNCHANGED <<storeVars, convVars, semVars, chatVars, extVars>>

\* DbGetMessageCount that counts the window instead of the session.
DbGetMessageCountWindowed(session_id, db_ok) ==
    /\ pret' = [ op |-> "get_message_count", session_id |-> session_id,
                 db_error |-> ~db_ok,
                 result |-> IF db_ok
                            THEN Len(Take(RowsOf(messages, session_id), MaxHistory))
                            ELSE 0 ]
    /\ UNCHANGED <<messages, db_now>>
    /\ UNCHANGED <<storeVars, convVars, semVars, chatVars, extVars>>

\* get_message_count(session_id); on a database error it returns 0.
DbGetMessageCount(session_id, db_ok) ==
    /\ pret' = [ op |-> "get_message_count", session_id |-> session_id,
                 db_error |-> ~db_ok,
                 result |-> IF db_ok THEN Len(RowsOf(messages, session_id)) ELSE 0 ]
    /\ UNCHANGED <<messages, db_now>>
    /\ UNCHANGED <<storeVars, convVars, semVars, chatVars, extVars>>

\* has_session(session_id): get_message_count(session_id) > 0
DbHasSession(session_id, db_ok) ==
    /\ pret' = [ op |-> "has_session", session_id |-> session_id,
                 db_error |-> ~db_ok,
                 result |-> db_ok /\ Len(RowsOf(messages, session_id)) > 0 ]
    /\ UNCHANGED <<messages, db_now>>
    /\ UNCHANGED <<storeVars, convVars, semVars, chatVars, extVars>>

\* clear_session(session_id); on failure the transaction is rolled back and the
\* exception is raised again.
ClearSession(session_id, db_ok) ==
    /\ messages' = IF db_ok THEN RowsNotOf(messages, session_id) ELSE messages
    /\ pret' = [ op |-> "clear_session", session_id |-> session_id, raised |-> ~db_ok ]
    /\ UNCHANGED db_now
    /\ UNCHANGED <<storeVars, convVars, semVars, chatVars, extVars>>

\* ------------------------------------------------------------ MemoryExtractor

\* MemoryExtractor(min_confidence=0.5), in thousandths.
MinConfidence == 500

\* The message contents of the model, each as its sentences: the pieces
\* re.split(r'[.!?]\s+', text) separates, with
\*   body      the sentence without its closing '.', '!' or '?'
\*   length    len(body)
\*   patterns  the MEMORY_PATTERNS (numbered 1..10 in their order) that match it
\*   strong    whether it holds "i am", "i like", "i prefer" or "my favorite"
\*   end       its closing punctuation, "" without one
\* and stripped, the whole text without its closing punctuation.  c{n} in a
\* content stands for n times the character c.  No content has outer
\* whitespace, and no body begins or ends with one of '.,!?;:'.
Sentence(body, length, patterns, strong, end) ==
    [ body |-> body, length |-> length, patterns |-> patterns, strong |-> strong,
      end |-> end ]

Lexicon ==
    [ c \in { "I like hiking on weekends", "My favorite tea is green tea.",
              "What time is it?", "I like tea", "Noted", "I am Bob", "I like teas",
              "I want tea, do you?", "I like tea, I am Bob, my name is Bob?",
              "I am Bob. I like hiking on weekends", "I am Bob. How are you today",
              "I like a{193}", "I like a{192}", "I want a{200}",
              "I like a{200}. I am a{200}" } |->
        CASE c = "I like hiking on weekends" ->
               [ sentences |-> << Sentence("I like hiking on weekends", 25, {1}, TRUE, "") >>,
                 stripped |-> "I like hiking on weekends" ]
          [] c = "My favorite tea is green tea." ->
               [ sentences |-> << Sentence("My favorite tea is green tea", 28, {3}, TRUE, ".") >>,
                 stripped |-> "My favorite tea is green tea" ]
          [] c = "What time is it?" ->
               [ sentences |-> << Sentence("What time is it", 15, {}, FALSE, "?") >>,
                 stripped |-> "What time is it" ]
          [] c = "I like tea" ->
               [ sentences |-> << Sentence("I like tea", 10, {1}, TRUE, "") >>,
                 stripped |-> "I like tea" ]
          [] c = "Noted" ->
               [ sentences |-> << Sentence("Noted", 5, {}, FALSE, "") >>,
                 stripped |-> "Noted" ]
          [] c = "I am Bob" ->
               [ sentences |-> << Sentence("I am Bob", 8, {2}, TRUE, "") >>,
                 stripped |-> "I am Bob" ]
          [] c = "I like teas" ->
               [ sentences |-> << Sentence("I like teas", 11, {1}, TRUE, "") >>,
                 stripped |-> "I like teas" ]
          [] c = "I want tea, do you?" ->
               [ sentences |-> << Sentence("I want tea, do you", 18, {4}, FALSE, "?") >>,
                 stripped |-> "I want tea, do you" ]
          [] c = "I like tea, I am Bob, my name is Bob?" ->
               [ sentences |-> << Sentence("I like tea, I am Bob, my name is Bob", 36,
                                           {1, 2, 6}, TRUE, "?") >>,
                 stripped |-> "I like tea, I am Bob, my name is Bob" ]
          [] c = "I am Bob. I like hiking on weekends" ->
               [ sentences |-> << Sentence("I am Bob", 8, {2}, TRUE, "."),
                                  Sentence("I like hiking on weekends", 25, {1}, TRUE, "") >>,
                 stripped |-> "I am Bob. I like hiking on weekends" ]
          [] c = "I am Bob. How are you today" ->
               [ sentences |-> << Sentence("I am Bob", 8, {2}, TRUE, "."),
                                  Sentence("How are you today", 17, {}, FALSE, "") >>,
                 stripped |-> "I am Bob. How are you today" ]
          [] c = "I like a{193}" ->
               [ sentences |-> << Sentence("I like a{193}", 200, {1}, TRUE, "") >>,
                 stripped |-> "I like a{193}" ]
          [] c = "I like a{192}" ->
               [ sentences |-> << Sentence("I like a{192}", 199, {1}, TRUE, "") >>,
                 stripped |-> "I like a{192}" ]
          [] c = "I want a{200}" ->
               [ sentences |-> << Sentence("I want a{200}", 207, {4}, FALSE, "") >>,
                 stripped |-> "I want a{200}" ]
          [] c = "I like a{200}. I am a{200}" ->
               [ sentences |-> << Sentence("I like a{200}", 207, {1}, TRUE, "."),
                                  Sentence("I am a{200}", 205, {2}, TRUE, "") >>,
                 stripped |-> "I like a{200}. I am a{200}" ] ]

\* len(end)
EndLength(end) == IF end = "" THEN 0 ELSE 1

\* len() of the sentences joined by one blank each.
RECURSIVE JoinedLength(_)
JoinedLength(sentences) ==
    IF sentences = <<>> THEN 0
    ELSE Head(sentences).length + EndLength(Head(sentences).end)
         + (IF Tail(sentences) = <<>> THEN 0 ELSE 1 + JoinedLength(Tail(sentences)))

\* What the extractor's string operations give on a text:
\*   length    len(content.strip())
\*   patterns  the number of MEMORY_PATTERNS that match the text
\*   strong    whether the lowered text holds one of the four phrases
\*   question  whether the text ends with "?"
\*   segments  re.split(r'[.!?]\s+', text): for each segment whether a pattern
\*             matches it, and the segment stripped of '.,!?;:' with its length
\*   cleaned   text.strip('.,!?;:') with its length
FeaturesOf(text) ==
    LET s == text.sentences
        n == Len(s)
    IN [ length |-> JoinedLength(s),
         patterns |-> Cardinality(UNION { s[i].patterns : i \in 1..n }),
         strong |-> \E i \in 1..n : s[i].strong,
         question |-> s[n].end = "?",
         segments |-> [ i \in 1..n |->
                          [ matches |-> s[i].patterns # {}, length |-> s[i].length,
                            text |-> s[i].body ] ],
         cleaned |-> [ text |-> text.stripped,
                       length |-> JoinedLength(s) - EndLength(s[n].end) ] ]

Smaller(a, b) == IF a < b THEN a ELSE b

\* CalculateConfidence that halves a question before it adds the boost of a
\* strong phrase.
CalculateConfidenceHalvesFirst(f) ==
    IF f.patterns = 0 THEN 0
    ELSE LET base == Smaller(500 + f.patterns * 200, 1000)
             asked == IF f.question THEN (base * 5) \div 10 ELSE base
             boosted == IF f.strong THEN Smaller(asked + 200, 1000) ELSE asked
         IN IF f.length > 200 THEN (boosted * 7) \div 10 ELSE boosted

\* CalculateConfidence without the 0.5 every matching text starts from.
CalculateConfidenceNoOffset(f) ==
    IF f.patterns = 0 THEN 0
    ELSE LET base == Smaller(f.patterns * 200, 1000)
             boosted == IF f.strong THEN Smaller(base + 200, 1000) ELSE base
             asked == IF f.question THEN (boosted * 5) \div 10 ELSE boosted
         IN IF f.length > 200 THEN (asked * 7) \div 10 ELSE asked

\* _calculate_confidence(text), in thousandths, on the features f of the text.
CalculateConfidence(f) ==
    IF f.patterns = 0 THEN 0
    ELSE LET base == Smaller(500 + f.patterns * 200, 1000)
             boosted == IF f.strong THEN Smaller(base + 200, 1000) ELSE base
             asked == IF f.question THEN (boosted * 5) \div 10 ELSE boosted
         IN IF f.length > 200 THEN (asked * 7) \div 10 ELSE asked

\* _extract_memory_text(text): <<sentence>> or None (here <<>>).  The loop
\* returns the first segment that matches a pattern and whose stripped length
\* is above 10 and below 200; without one, the stripped whole text when its
\* length is above 10 and below 200.
RECURSIVE FirstFitting(_)
FirstFitting(segments) ==
    IF segments = <<>> THEN <<>>
    ELSE IF /\ Head(segments).matches
            /\ Head(segments).length > 10
            /\ Head(segments).length < 200
    THEN <<Head(segments).text>>
    ELSE FirstFitting(Tail(segments))

ExtractMemoryText(f) ==
    IF FirstFitting(f.segments) # <<>> THEN FirstFitting(f.segments)
    ELSE IF 10 < f.cleaned.length /\ f.cleaned.length < 200 THEN <<f.cleaned.text>>
    ELSE <<>>

\* ExtractCandidates that scans the turns of every role.
RECURSIVE ExtractCandidatesAnyRole(_)
ExtractCandidatesAnyRole(msgs) ==
    IF msgs = <<>> THEN <<>>
    ELSE LET msg == Head(msgs)
             f == FeaturesOf(Lexicon[msg.content])
             confidence == CalculateConfidence(f)
             rest == ExtractCandidatesAnyRole(Tail(msgs))
         IN IF f.length = 0 \/ f.length < 10 THEN rest
            ELSE IF confidence >= MinConfidence /\ ExtractMemoryText(f) # <<>>
            THEN << [ text |-> ExtractMemoryText(f)[1], confidence |-> confidence,
                      source_message |-> msg.content ] >> \o rest
            ELSE rest

\* extract_candidates(messages): one candidate for each user message that is
\* long enough, confident enough and gives a memory text.
RECURSIVE ExtractCandidates(_)
ExtractCandidates(msgs) ==
    IF msgs = <<>> THEN <<>>
    ELSE LET msg == Head(msgs)
             f == FeaturesOf(Lexicon[msg.content])
             confidence == CalculateConfidence(f)
             rest == ExtractCandidates(Tail(msgs))
         IN IF msg.role # "user" THEN rest
            ELSE IF f.length = 0 \/ f.length < 10 THEN rest
            ELSE IF confidence >= MinConfidence /\ ExtractMemoryText(f) # <<>>
            THEN << [ text |-> ExtractMemoryText(f)[1], confidence |-> confidence,
                      source_message |-> msg.content ] >> \o rest
            ELSE rest

\* ShouldStore with a threshold the confidence has to exceed.
ShouldStoreAbove(candidate) == candidate.confidence > MinConfidence

\* should_store(candidate)
ShouldStore(candidate) == candidate.confidence >= MinConfidence

\* ------------------------------------------------------------ SemanticMemory

\* config.settings.semantic_memory_min_similarity: 0.3, as 100 * cos.
MinSimilarity == 30
\* config.settings.semantic_memory_max_retrieved: 5 in the code, scaled down.
MaxRetrieved == 2

\* The coroutines of SemanticMemory that run at the same time.
Tasks == { "t1", "t2" }

\* Texts passed to store_memory and queries passed to retrieve_relevant.
Texts == { "I like hiking on weekends", "My favorite tea is green tea" }

\* The messages lists passed to extract_and_store: one with two candidates,
\* one with none.
Conversations ==
    { << [role |-> "user", content |-> "I like hiking on weekends"],
         [role |-> "user", content |-> "My favorite tea is green tea."] >>,
      << [role |-> "user", content |-> "What time is it?"],
         [role |-> "user", content |-> "I like tea"] >> }

\* The top_k argument of retrieve_relevant: <<>> stands for None.
TopKs == { <<>>, <<0>>, <<1>> }

\* _mock_embed(text): a vector of the configured dimension, the same for the
\* same text.  (The code's vectors have norm 1; cosine similarity does not
\* depend on the norm.)
MockEmbed(text) ==
    CASE text = "I like hiking on weekends" -> <<3, 4>>
      [] text = "My favorite tea is green tea" -> <<1, 0>>
      [] OTHER -> <<0, 1>>

\* response.data[0].embedding of the OpenAI provider: the dimension of the
\* provider's model, not the configured one.
ProviderEmbed(text) == <<1, 2, 2>>

\* What 'await embedding_service.embed(text)' can give its caller: the mock
\* vector (provider "mock", or the fallback of the other providers), the
\* provider's vector, or an exception that escapes the call.
EmbedOutcomes(text) ==
    { [ raised |-> FALSE, embedding |-> MockEmbed(text) ],
      [ raised |-> FALSE, embedding |-> ProviderEmbed(text) ],
      [ raised |-> TRUE, embedding |-> <<>> ] }

\* The position of a coroutine.  pc is "idle", "embed" (suspended in
\* 'await embedding_service.embed(text)') or "done" (returned, raised or
\* cancelled, the outcome not yet picked up).
Task(pc, op, user_id, text) ==
    [ pc |-> pc, op |-> op, user_id |-> user_id, text |-> text,
      top_k |-> <<>>, candidates |-> <<>>, i |-> 0, stored_ids |-> <<>>,
      log |-> <<>>, raised |-> FALSE, failed |-> FALSE, cancelled |-> FALSE,
      result |-> <<>> ]

Idle == Task("idle", "none", "", "")

\* StoreMemoryIn that uses up an id although the embedding failed.
StoreMemoryInSpendsId(st, n, text, user_id, outcome, t) ==
    IF outcome.raised
    THEN [ store |-> st, next_id |-> n + 1, raised |-> TRUE, out |-> <<>> ]
    ELSE LET out == StoreIn(st, n, text, outcome.embedding, user_id, t)
         IN [ store |-> out.store, next_id |-> n + 1, raised |-> FALSE, out |-> <<out>> ]

\* store_memory(text, user_id) from the point where embed() has answered with
\* outcome: an exception is logged and raised again, otherwise the embedding
\* is stored.  vector_store.store() itself has no failing path.
StoreMemoryIn(st, n, text, user_id, outcome, t) ==
    IF outcome.raised
    THEN [ store |-> st, next_id |-> n, raised |-> TRUE, out |-> <<>> ]
    ELSE LET out == StoreIn(st, n, text, outcome.embedding, user_id, t)
         IN [ store |-> out.store, next_id |-> n + 1, raised |-> FALSE, out |-> <<out>> ]

\* top_k = top_k or self.max_retrieved
EffectiveTopK(top_k) ==
    IF top_k = <<>> THEN MaxRetrieved
    ELSE IF top_k[1] = 0 THEN MaxRetrieved ELSE top_k[1]

\* [entry for entry, _ in results]
EntriesOf(results) == [ i \in 1..Len(results) |-> results[i].entry ]

\* RetrieveRelevantIn that lets the exception out.
RetrieveRelevantInPropagates(st, user_id, top_k, outcome, t) ==
    IF outcome.raised
    THEN [ memories |-> st.memories, searched |-> <<>>, failed |-> TRUE,
           raised |-> TRUE, result |-> <<>> ]
    ELSE LET out == SearchIn(st, outcome.embedding, user_id, EffectiveTopK(top_k),
                             MinSimilarity, t)
         IN [ memories |-> out.memories, searched |-> <<out>>, failed |-> out.raised,
              raised |-> out.raised, result |-> EntriesOf(out.results) ]

\* retrieve_relevant(query, user_id, top_k) from the point where embed() has
\* answered with outcome: any exception, of embed() or of search(), is logged
\* and [] returned.  What search() did to the access counters before it raised
\* stays.
RetrieveRelevantIn(st, user_id, top_k, outcome, t) ==
    IF outcome.raised
    THEN [ memories |-> st.memories, searched |-> <<>>, failed |-> TRUE,
           raised |-> FALSE, result |-> <<>> ]
    ELSE LET out == SearchIn(st, outcome.embedding, user_id, EffectiveTopK(top_k),
                             MinSimilarity, t)
         IN [ memories |-> out.memories, searched |-> <<out>>, failed |-> out.raised,
              raised |-> FALSE, result |-> EntriesOf(out.results) ]

\* FormatMemoriesForPrompt that numbers the memories from 0.
FormatMemoriesForPromptFromZero(entries) ==
    IF entries = <<>> THEN <<>>
    ELSE << [ kind |-> "header", n |-> 0, text |-> "## User Context & Preferences:" ] >>
         \o [ i \in 1..Len(entries) |->
                [ kind |-> "memory", n |-> i - 1, text |-> entries[i].text ] ]
         \o << [ kind |-> "footer", n |-> 0,
                 text |-> "Use this information to provide personalized responses." ] >>

\* format_memories_for_prompt(memories): the text as its lines, the blank ones
\* left out; "" is <<>>.
FormatMemoriesForPrompt(entries) ==
    IF entries = <<>> THEN <<>>
    ELSE << [ kind |-> "header", n |-> 0, text |-> "## User Context & Preferences:" ] >>
         \o [ i \in 1..Len(entries) |->
                [ kind |-> "memory", n |-> i, text |-> entries[i].text ] ]
         \o << [ kind |-> "footer", n |-> 0,
                 text |-> "Use this information to provide personalized responses." ] >>

\* The first candidate at or after position i that should_store accepts;
\* 0 when there is none.
StorableFrom(candidates, i) ==
    LET S == { j \in i..Len(candidates) : ShouldStore(candidates[j]) }
    IN IF S = {} THEN 0 ELSE CHOOSE j \in S : \A k \in S : j <= k

\* AfterFailure that gives up the rest of the batch.
AfterFailureAborts(candidates, i) == 0

\* The candidate extract_and_store goes on with after the 'except Exception'
\* of candidate i: the next one of the loop.
AfterFailure(candidates, i) == StorableFrom(candidates, i + 1)

\* CancelIn that deletes what the cancelled call had stored.
RECURSIVE CancelInRollsBack(_, _)
CancelInRollsBack(st, stored_ids) ==
    IF stored_ids = <<>> THEN st
    ELSE CancelInRollsBack(DeleteIn(st, Head(stored_ids)).store, Tail(stored_ids))

\* The store after a CancelledError is raised in the await of
\* extract_and_store: it is not an Exception, no handler of store_memory or
\* extract_and_store runs and nothing is undone.
CancelIn(st, stored_ids) == st

\* No coroutine of SemanticMemory is running.
SemInit == sem = [ t \in Tasks |-> Idle ]

\* What a vector_store.store() made by a coroutine leaves in ret.
StoreRet(out, user_id) ==
    [ op |-> "store", id |-> out.id, user_id |-> user_id, entry |-> out.entry,
      evicted |-> out.evicted, victims |-> out.victims ]

\* store_memory(text, user_id) is called and suspends in embed().
CallStoreMemory(t, text, user_id) ==
    /\ sem[t].pc = "idle"
    /\ sem' = [sem EXCEPT ![t] = Task("embed", "store_memory", user_id, text)]
    /\ UNCHANGED <<storeVars, convVars, dbVars, chatVars, extVars>>

\* embed() answers a suspended store_memory, which runs to its end.
StoreMemoryResumes(t, outcome) ==
    /\ sem[t].pc = "embed"
    /\ sem[t].op = "store_memory"
    /\ ~outcome.raised => next_id < MaxStores
    /\ LET r == StoreMemoryIn(TheStore, next_id, sem[t].text, sem[t].user_id, outcome, now)
       IN /\ memories' = r.store.memories
          /\ user_memories' = r.store.user_memories
          /\ next_id' = r.next_id
          /\ issued' = IF r.out = <<>> THEN issued ELSE Append(issued, r.out[1].id)
          /\ ret' = IF r.out = <<>> THEN ret ELSE StoreRet(r.out[1], sem[t].user_id)
          /\ sem' = [sem EXCEPT ![t] =
                       [@ EXCEPT !.pc = "done", !.raised = r.raised, !.failed = r.raised,
                                 !.result = IF r.out = <<>> THEN <<>>
                                            ELSE <<r.out[1].id>>]]
    /\ UNCHANGED now
    /\ UNCHANGED <<convVars, dbVars, chatVars, extVars>>

\* retrieve_relevant(query, user_id, top_k) is called and suspends in embed().
CallRetrieveRelevant(t, query, user_id, top_k) ==
    /\ sem[t].pc = "idle"
    /\ sem' = [sem EXCEPT ![t] =
                 [Task("embed", "retrieve_relevant", user_id, query) EXCEPT
                     !.top_k = top_k]]
    /\ UNCHANGED <<storeVars, convVars, dbVars, chatVars, extVars>>

\* get_context_for_query(query, user_id) is called and suspends in the embed()
\* of its retrieve_relevant(query, user_id).
CallGetContextForQuery(t, query, user_id) ==
    /\ sem[t].pc = "idle"
    /\ sem' = [sem EXCEPT ![t] = Task("embed", "get_context_for_query", user_id, query)]
    /\ UNCHANGED <<storeVars, convVars, dbVars, chatVars, extVars>>

\* embed() answers a suspended retrieve_relevant, which runs to its end; for
\* get_context_for_query the entries are then formatted.
RetrieveResumes(t, outcome) ==
    /\ sem[t].pc = "embed"
    /\ sem[t].op \in { "retrieve_relevant", "get_context_for_query" }
    /\ ~outcome.raised => \A id \in DOMAIN memories : memories[id].access_count < MaxAccess
    /\ LET r == RetrieveRelevantIn(TheStore, sem[t].user_id, sem[t].top_k, outcome, now)
       IN /\ memories' = r.memories
          /\ ret' = IF r.searched = <<>> THEN ret
                    ELSE [ op |-> "search", query |-> outcome.embedding,
                           user_id |-> sem[t].user_id,
                           top_k |-> EffectiveTopK(sem[t].top_k),
                           min_similarity |-> MinSimilarity,
                           raised |-> r.searched[1].raised,
                           results |-> r.searched[1].results ]
          /\ sem' = [sem EXCEPT ![t] =
                       [@ EXCEPT !.pc = "done", !.raised = r.raised, !.failed = r.failed,
                                 !.result = IF sem[t].op = "get_context_for_query"
                                            THEN FormatMemoriesForPrompt(r.result)
                                            ELSE r.result]]
    /\ UNCHANGED <<user_memories, next_id, now, issued>>
    /\ UNCHANGED <<convVars, dbVars, chatVars, extVars>>

\* extract_and_store(messages, user_id) is called: it extracts the candidates
\* and suspends in the embed() of the first one should_store accepts, or
\* returns [] when there is none.
CallExtractAndStore(t, msgs, user_id) ==
    /\ sem[t].pc = "idle"
    /\ LET candidates == ExtractCandidates(msgs)
           first == StorableFrom(candidates, 1)
       IN sem' = [sem EXCEPT ![t] =
                    IF first = 0
                    THEN [Task("done", "extract_and_store", user_id, "") EXCEPT
                             !.candidates = candidates]
                    ELSE [Task("embed", "extract_and_store", user_id,
                               candidates[first].text) EXCEPT
                             !.candidates = candidates, !.i = first]]
    /\ UNCHANGED <<storeVars, convVars, dbVars, chatVars, extVars>>

\* embed() answers the store_memory of candidate i of a suspended
\* extract_and_store: the candidate is stored or its failure is caught, and the
\* loop goes on to the next candidate's embed() or returns stored_ids.
ExtractAndStoreResumes(t, outcome) ==
    /\ sem[t].pc = "embed"
    /\ sem[t].op = "extract_and_store"
    /\ ~outcome.raised => next_id < MaxStores
    /\ LET r == StoreMemoryIn(TheStore, next_id, sem[t].text, sem[t].user_id, outcome, now)
           j == IF r.raised THEN AfterFailure(sem[t].candidates, sem[t].i)
                ELSE StorableFrom(sem[t].candidates, sem[t].i + 1)
           ids == IF r.raised THEN sem[t].stored_ids
                  ELSE Append(sem[t].stored_ids, r.out[1].id)
           log == Append(sem[t].log,
                         [ i |-> sem[t].i, stored |-> ~r.raised,
                           id |-> IF r.raised THEN <<>> ELSE <<r.out[1].id>> ])
       IN /\ memories' = r.store.memories
          /\ user_memories' = r.store.user_memories
          /\ next_id' = r.next_id
          /\ issued' = IF r.out = <<>> THEN issued ELSE Append(issued, r.out[1].id)
          /\ ret' = IF r.out = <<>> THEN ret ELSE StoreRet(r.out[1], sem[t].user_id)
          /\ sem' = [sem EXCEPT ![t] =
                       IF j = 0
                       THEN [@ EXCEPT !.pc = "done", !.stored_ids = ids, !.log = log,
                                      !.result = ids]
                       ELSE [@ EXCEPT !.i = j, !.text = sem[t].candidates[j].text,
                                      !.stored_ids = ids, !.log = log]]
    /\ UNCHANGED now
    /\ UNCHANGED <<convVars, dbVars, chatVars, extVars>>

\* The caller of a suspended coroutine gives up (asyncio.wait_for times out):
\* CancelledError is raised in the await.
Cancel(t) ==
    /\ sem[t].pc = "embed"
    /\ LET st == CancelIn(TheStore, sem[t].stored_ids)
       IN /\ memories' = st.memories
          /\ user_memories' = st.user_memories
    /\ sem' = [sem EXCEPT ![t] = [@ EXCEPT !.pc = "done", !.cancelled = TRUE]]
    /\ UNCHANGED <<next_id, now, issued, ret>>
    /\ UNCHANGED <<convVars, dbVars, chatVars, extVars>>

\* The caller picks up the outcome of a finished coroutine.
Return(t) ==
    /\ sem[t].pc = "done"
    /\ sem' = [sem EXCEPT ![t] = Idle]
    /\ UNCHANGED <<storeVars, convVars, dbVars, chatVars, extVars>>

\* ------------------------------------------------------------ the chat handler

\* ChatRequest(message, conversation_id, user_id) values posted to /chat;
\* user_id "" stands for null.  message has min_length 1.
Requests ==
    { [ conversation_id |-> "s1", message |-> m, user_id |-> u ] :
        m \in { "I like hiking on weekends", "What time is it?" },
        u \in { "alice", "" } }

\* What the generation step answers: the provider's text, or the apology the
\* provider wrappers return when the provider fails (a text as well).
Responses == { "Noted" }

\* The locals of a chat() coroutine.  pc is "idle", "context" (suspended in the
\* embed() of get_context_for_query), "generate" (suspended in the provider
\* call), "extract" (suspended in the embed() of candidate i of
\* extract_and_store) or "done" (status 200: a ChatResponse, status 500: an
\* HTTPException).  user_row is history: the position in the table of the row
\* the handler saved for the user message, 0 when it saved none.
Turn(pc) ==
    [ pc |-> pc, session_id |-> "", user_id |-> "", message |-> "",
      messages_for_ai |-> <<>>, context |-> <<>>, response |-> "",
      candidates |-> <<>>, i |-> 0, stored_ids |-> <<>>, status |-> 0, count |-> 0,
      user_row |-> 0 ]

\* query_text of generate_response: the content of the last user message, ""
\* without one.
RECURSIVE LastUserContent(_)
LastUserContent(msgs) ==
    IF msgs = <<>> THEN ""
    ELSE IF msgs[Len(msgs)].role = "user" THEN msgs[Len(msgs)].content
    ELSE LastUserContent(SubSeq(msgs, 1, Len(msgs) - 1))

\* What the handler does when save_message raises: the except clause of chat()
\* turns the exception into HTTPException(500).
OnSaveError(turn) == [turn EXCEPT !.pc = "done", !.status = 500]

\* The end of chat(): get_message_count (0 on a database error) and the
\* ChatResponse.
Responded(turn, table, count_ok) ==
    [turn EXCEPT !.pc = "done", !.status = 200,
                 !.count = IF count_ok THEN Len(RowsOf(table, turn.session_id)) ELSE 0]

\* chat() after the assistant message is saved, up to its next await:
\* extract_and_store of the full conversation when user_id is set, suspended in
\* the embed() of the first candidate should_store accepts; the response when
\* there is nothing to embed.
AfterReply(turn, table, count_ok) ==
    IF turn.user_id = "" THEN Responded(turn, table, count_ok)
    ELSE LET full_conversation ==
                 Append(turn.messages_for_ai,
                        [role |-> "assistant", content |-> turn.response])
             candidates == ExtractCandidates(full_conversation)
             first == StorableFrom(candidates, 1)
         IN IF first = 0
            THEN Responded([turn EXCEPT !.candidates = candidates], table, count_ok)
            ELSE [turn EXCEPT !.pc = "extract", !.candidates = candidates, !.i = first]

\* No request is being handled.
ChatInit == chat = [ t \in Tasks |-> Turn("idle") ]

\* chat(request) up to its first await: the history is read ([] on a database
\* error), the user message saved, and generate_response suspends in the
\* embed() of get_context_for_query when user_id and the query text are set,
\* otherwise in the provider call.
ChatStart(t, request, read_ok, save_ok) ==
    /\ chat[t].pc = "idle"
    /\ Len(messages) < MaxChatRows
    /\ \E history \in IF read_ok
                      THEN RecentMessages(messages, request.conversation_id, 0, MaxHistory)
                      ELSE { <<>> } :
          LET turn == [Turn("idle") EXCEPT
                          !.session_id = request.conversation_id,
                          !.user_id = request.user_id,
                          !.message = request.message,
                          !.messages_for_ai =
                              Append(history, [role |-> "user",
                                               content |-> request.message])]
              awaits == IF turn.user_id # "" /\ LastUserContent(turn.messages_for_ai) # ""
                        THEN "context" ELSE "generate"
          IN /\ chat' = [chat EXCEPT ![t] =
                           IF save_ok
                           THEN [turn EXCEPT !.pc = awaits,
                                             !.user_row = Len(messages) + 1]
                           ELSE OnSaveError(turn)]
             /\ messages' = IF save_ok
                            THEN Append(messages,
                                        Message(request.conversation_id, "user",
                                                request.message, db_now))
                            ELSE messages
    /\ UNCHANGED <<db_now, pret>>
    /\ UNCHANGED <<storeVars, convVars, semVars, extVars>>

\* embed() answers get_context_for_query: the search is made, the context
\* formatted ("" on any failure), and generate_response suspends in the
\* provider call.
ChatContextResumes(t, outcome) ==
    /\ chat[t].pc = "context"
    /\ ~outcome.raised => \A id \in DOMAIN memories : memories[id].access_count < MaxAccess
    /\ LET r == RetrieveRelevantIn(TheStore, chat[t].user_id, <<>>, outcome, now)
       IN /\ memories' = r.memories
          /\ ret' = IF r.searched = <<>> THEN ret
                    ELSE [ op |-> "search", query |-> outcome.embedding,
                           user_id |-> chat[t].user_id,
                           top_k |-> EffectiveTopK(<<>>),
                           min_similarity |-> MinSimilarity,
                           raised |-> r.searched[1].raised,
                           results |-> r.searched[1].results ]
          /\ chat' = [chat EXCEPT ![t] =
                        [@ EXCEPT !.pc = "generate",
                                  !.context = FormatMemoriesForPrompt(r.result)]]
    /\ UNCHANGED <<user_memories, next_id, now, issued>>
    /\ UNCHANGED <<convVars, dbVars, semVars, extVars>>

\* The provider answers: the assistant message is saved and the handler goes
\* on to extract_and_store or to its response.
ChatGenerateResumes(t, response_text, save_ok, count_ok) ==
    /\ chat[t].pc = "generate"
    /\ Len(messages) < MaxChatRows
    /\ LET turn == [chat[t] EXCEPT !.response = response_text]
           table == Append(messages,
                           Message(turn.session_id, "assistant", response_text, db_now))
       IN /\ chat' = [chat EXCEPT ![t] =
                        IF save_ok THEN AfterReply(turn, table, count_ok)
                        ELSE OnSaveError(turn)]
          /\ messages' = IF save_ok THEN table ELSE messages
    /\ UNCHANGED <<db_now, pret>>
    /\ UNCHANGED <<storeVars, convVars, semVars, extVars>>

\* embed() answers the store_memory of candidate i of the handler's
\* extract_and_store: the candidate is stored or its failure caught, and the
\* handler goes on to the next candidate's embed() or to its response.
ChatExtractResumes(t, outcome, count_ok) ==
    /\ chat[t].pc = "extract"
    /\ ~outcome.raised => next_id < MaxStores
    /\ LET turn == chat[t]
           r == StoreMemoryIn(TheStore, next_id, turn.candidates[turn.i].text,
                              turn.user_id, outcome, now)
           j == IF r.raised THEN AfterFailure(turn.candidates, turn.i)
                ELSE StorableFrom(turn.candidates, turn.i + 1)
           ids == IF r.raised THEN turn.stored_ids
                  ELSE Append(turn.stored_ids, r.out[1].id)
       IN /\ memories' = r.store.memories
          /\ user_memories' = r.store.user_memories
          /\ next_id' = r.next_id
          /\ issued' = IF r.out = <<>> THEN issued ELSE Append(issued, r.out[1].id)
          /\ ret' = IF r.out = <<>> THEN ret ELSE StoreRet(r.out[1], turn.user_id)
          /\ chat' = [chat EXCEPT ![t] =
                        IF j = 0
                        THEN Responded([turn EXCEPT !.stored_ids = ids], messages, count_ok)
                        ELSE [turn EXCEPT !.i = j, !.stored_ids = ids]]
    /\ UNCHANGED now
    /\ UNCHANGED <<convVars, dbVars, semVars, extVars>>

\* The response, or the HTTPException, is sent.
ChatResponds(t) ==
    /\ chat[t].pc = "done"
    /\ chat' = [chat EXCEPT ![t] = Turn("idle")]
    /\ UNCHANGED <<storeVars, convVars, dbVars, semVars, extVars>>

\* ------------------------------------------------------------ calls of the pure functions

\* len(MEMORY_PATTERNS)
PatternCount == 10

\* The longest messages list passed to extract_candidates, and the longest
\* memories list passed to format_memories_for_prompt.
MaxTurns == 2
MaxFormatted == 3

\* What _calculate_confidence reads of a text: how many patterns match, whether
\* a strong phrase is there (each strong phrase makes a pattern match), whether
\* it ends with "?", and its length, below or above 200.
ConfidenceInputs ==
    { f \in [ patterns : 0..PatternCount, strong : BOOLEAN, question : BOOLEAN,
              length : { 150, 250 } ] : f.strong => f.patterns > 0 }

\* The messages lists passed to extract_candidates.
Turns ==
    LET turn == { [role |-> r, content |-> c] :
                    r \in { "user", "assistant" }, c \in DOMAIN Lexicon }
    IN UNION { [1..n -> turn] : n \in 0..MaxTurns }

\* The memories lists passed to format_memories_for_prompt.
FormatInputs ==
    LET entry == { MemoryEntry(1, "I like hiking on weekends", <<3, 4>>, "alice", 0),
                   MemoryEntry(2, "My favorite tea is green tea", <<1, 0>>, "alice", 0),
                   MemoryEntry(3, "I like hiking on weekends", <<3, 4>>, "alice", 1) }
    IN UNION { [1..n -> entry] : n \in 0..MaxFormatted }

\* No pure function was called yet.
ExtInit == ext = [ op |-> "init" ]

\* memory_extractor._calculate_confidence(text) on a text with features f.
CallCalculateConfidence(f) ==
    /\ ext' = [ op |-> "_calculate_confidence", features |-> f,
                result |-> CalculateConfidence(f) ]
    /\ UNCHANGED <<storeVars, convVars, dbVars, semVars, chatVars>>

\* memory_extractor._extract_memory_text(text); <<>> is None.
CallExtractMemoryText(content) ==
    /\ ext' = [ op |-> "_extract_memory_text", text |-> content,
                result |-> ExtractMemoryText(FeaturesOf(Lexicon[content])) ]
    /\ UNCHANGED <<storeVars, convVars, dbVars, semVars, chatVars>>

\* memory_extractor.extract_candidates(messages)
CallExtractCandidates(msgs) ==
    /\ ext' = [ op |-> "extract_candidates", messages |-> msgs,
                result |-> ExtractCandidates(msgs) ]
    /\ UNCHANGED <<storeVars, convVars, dbVars, semVars, chatVars>>

\* semantic_memory.format_memories_for_prompt(memories)
CallFormatMemoriesForPrompt(entries) ==
    /\ ext' = [ op |-> "format_memories_for_prompt", memories |-> entries,
                result |-> FormatMemoriesForPrompt(entries) ]
    /\ UNCHANGED <<storeVars, convVars, dbVars, semVars, chatVars>>

\* ------------------------------------------------------------ specifications

Init == StoreInit /\ ConvInit /\ DbInit /\ SemInit /\ ChatInit /\ ExtInit

Next ==
    \/ Tick
    \/ \E in \in StoreInputs, u \in Users : Store(in[1], in[2], u)
    \/ \E q \in Queries, u \in Users, k \in 0..MaxTopK, s \in MinSimilarities :
          Search(q, u, k, s)
    \/ \E id \in 0..(MaxStores - 1) : Get(id)
    \/ \E id \in 0..(MaxStores - 1) : Delete(id)
    \/ \E u \in Users : GetUserMemories(u)
    \/ \E u \in Users : ClearUser(u)

Spec == Init /\ [][Next]_vars

NextConv ==
    \/ \E s \in Sessions, m \in ChatMessages : AddMessage(s, m)
    \/ \E s \in Sessions : GetHistory(s)
    \/ \E s \in Sessions : Clear(s)
    \/ \E s \in Sessions : GetMessageCount(s)
    \/ \E s \in Sessions : HasSession(s)

SpecConv == Init /\ [][NextConv]_vars

NextDb ==
    \/ DbTick
    \/ \E s \in Sessions, m \in ChatMessages, ok \in BOOLEAN :
          SaveMessage(s, m.role, m.content, ok)
    \/ \E s \in Sessions, l \in Limits, ok \in BOOLEAN : GetRecentMessages(s, l, ok)
    \/ \E s \in Sessions, ok \in BOOLEAN : DbGetMessageCount(s, ok)
    \/ \E s \in Sessions, ok \in BOOLEAN : DbHasSession(s, ok)
    \/ \E s \in Sessions, ok \in BOOLEAN : ClearSession(s, ok)

SpecDb == Init /\ [][NextDb]_vars

\* One caller of SemanticMemory at a time: store_memory, retrieve_relevant and
\* get_context_for_query, each followed from its call to its outcome.
NextSem ==
    \/ \E x \in Texts, u \in Users : CallStoreMemory("t1", x, u)
    \/ \E o \in EmbedOutcomes(sem["t1"].text) : StoreMemoryResumes("t1", o)
    \/ \E x \in Texts, u \in Users, k \in TopKs : CallRetrieveRelevant("t1", x, u, k)
    \/ \E x \in Texts, u \in Users : CallGetContextForQuery("t1", x, u)
    \/ \E o \in EmbedOutcomes(sem["t1"].text) : RetrieveResumes("t1", o)
    \/ Return("t1")

SpecSem == Init /\ [][NextSem]_vars

\* Concurrent chat turns in their extract_and_store, interleaved at every
\* await, with delete_memory() and clear_user_memories() between them; each
\* coroutine is followed from its call to its outcome.
NextTurns ==
    \/ Tick
    \/ \E t \in Tasks, c \in Conversations, u \in Users : CallExtractAndStore(t, c, u)
    \/ \E t \in Tasks : \E o \in EmbedOutcomes(sem[t].text) : ExtractAndStoreResumes(t, o)
    \/ \E t \in Tasks : Cancel(t)
    \/ \E id \in 0..(MaxStores - 1) : Delete(id)
    \/ \E u \in Users : ClearUser(u)

SpecTurns == Init /\ [][NextTurns]_vars

\* Concurrent chat requests, interleaved at every await of the handler, while
\* the table holds fewer than MaxRows rows.
NextChat ==
    \/ DbTick
    \/ \E t \in Tasks, r \in Requests, read_ok \in BOOLEAN, save_ok \in BOOLEAN :
          Len(messages) < MaxRows /\ ChatStart(t, r, read_ok, save_ok)
    \/ \E t \in Tasks :
          \E o \in EmbedOutcomes(LastUserContent(chat[t].messages_for_ai)) :
              ChatContextResumes(t, o)
    \/ \E t \in Tasks, x \in Responses, save_ok \in BOOLEAN, count_ok \in BOOLEAN :
          Len(messages) < MaxRows /\ ChatGenerateResumes(t, x, save_ok, count_ok)
    \/ \E t \in Tasks, count_ok \in BOOLEAN :
          \E o \in EmbedOutcomes(IF chat[t].pc = "extract"
                                 THEN chat[t].candidates[chat[t].i].text ELSE "") :
              ChatExtractResumes(t, o, count_ok)
    \/ \E t \in Tasks : ChatResponds(t)

SpecChat == Init /\ [][NextChat]_vars

\* The chat requests of one client that waits for each response before it
\* posts again: one handler at a time, two turns of a session (MaxChatRows
\* rows).
NextSession ==
    \/ DbTick
    \/ \E r \in Requests, read_ok \in BOOLEAN, save_ok \in BOOLEAN :
          ChatStart("t1", r, read_ok, save_ok)
    \/ \E o \in EmbedOutcomes(LastUserContent(chat["t1"].messages_for_ai)) :
          ChatContextResumes("t1", o)
    \/ \E x \in Responses, save_ok \in BOOLEAN, count_ok \in BOOLEAN :
          ChatGenerateResumes("t1", x, save_ok, count_ok)
    \/ \E count_ok \in BOOLEAN :
          \E o \in EmbedOutcomes(IF chat["t1"].pc = "extract"
                                 THEN chat["t1"].candidates[chat["t1"].i].text ELSE "") :
              ChatExtractResumes("t1", o, count_ok)
    \/ ChatResponds("t1")

SpecSession == Init /\ [][NextSession]_vars

\* The writes of both conversation memories, the volatile and the persisted
\* one, on every session, while the table holds fewer than MaxHistory rows.
NextWindows ==
    \/ \E s \in Sessions, m \in ChatMessages : AddMessage(s, m)
    \/ \E s \in Sessions : Clear(s)
    \/ DbTick
    \/ \E s \in Sessions, m \in ChatMessages, ok \in BOOLEAN :
          Len(messages) < MaxHistory /\ SaveMessage(s, m.role, m.content, ok)
    \/ \E s \in Sessions, ok \in BOOLEAN : ClearSession(s, ok)

SpecWindows == Init /\ [][NextWindows]_vars

\* The pure functions of the extractor and of the prompt formatting, called
\* with every input of the model.
NextPure ==
    \/ \E f \in ConfidenceInputs : CallCalculateConfidence(f)
    \/ \E c \in DOMAIN Lexicon : CallExtractMemoryText(c)
    \/ \E msgs \in Turns : CallExtractCandidates(msgs)
    \/ \E entries \in FormatInputs : CallFormatMemoriesForPrompt(entries)

SpecPure == Init /\ [][NextPure]_vars


\* ------------------------------------------------- claims: the vector store

\* The entries of user_id that a search with query q and threshold
\* min_similarity matches: non-zero, of q's length, similar enough.
Matching(q, user_id, min_similarity) ==
    IF Norm(q) = 0 THEN {}
    ELSE { id \in DOMAIN memories :
             /\ memories[id].user_id = user_id
             /\ Norm(memories[id].embedding) # 0
             /\ Len(memories[id].embedding) = Len(q)
             /\ CosineSimilarity(q, memories[id].embedding) >= min_similarity }

SearchReturned == ret.op = "search" /\ ~ret.raised

\* C1: whatever was stored, deleted and cleared before, a search for user U
\* returns only entries whose user_id is U.
C1_SearchIsolatesUsers ==
    SearchReturned =>
        \A i \in 1..Len(ret.results) : ret.results[i].entry.user_id = ret.user_id

\* C1 witness: a search returned an entry while another user holds an entry
\* that matches the same query.
C1_Witness ==
    /\ SearchReturned
    /\ Len(ret.results) > 0
    /\ \E u \in Users \ {ret.user_id} : Matching(ret.query, u, ret.min_similarity) # {}

\* C2: in every state the store holds at most max_size entries, and so does
\* every single user.
C2_SizeWithinCapacity ==
    /\ Cardinality(DOMAIN memories) <= MaxSize
    /\ \A u \in Users :
          Cardinality({ id \in DOMAIN memories : memories[id].user_id = u }) <= MaxSize

\* C2 witness: a store that had to evict has returned and the store is full.
C2_Witness ==
    /\ ret.op = "store"
    /\ ret.evicted # {}
    /\ Cardinality(DOMAIN memories) = MaxSize

\* The entries present when a store call evicts: those held before the call
\* and the new one.
AtEviction == Put(memories, ret'.id, ret'.entry)

\* C3 (as claimed): the entry a store evicts has the smallest
\* (created_at, access_count) of all entries present at eviction time, the
\* lowest access_count deciding between equal created_at.
C3_EvictsLeastAccessedOfOldest ==
    [][ ret'.op = "store" =>
          \A v \in ret'.evicted : \A o \in DOMAIN AtEviction :
              ~KeyLess(<<AtEviction[o].created_at, AtEviction[o].access_count>>,
                       <<AtEviction[v].created_at, AtEviction[v].access_count>>) ]_vars

\* C6 (as claimed): every stored entry's embedding has the configured
\* dimension, because store rejects any other.
C6_StoredEmbeddingsHaveDimension ==
    \A id \in DOMAIN memories : Len(memories[id].embedding) = EmbeddingDimension

\* C7: a store removes exactly one entry when the count with the new entry
\* exceeds max_size and none otherwise; search, get and get_user_memories
\* remove nothing and delete removes only the id it names.
C7_EvictionOnlyOnInsertOverCapacity ==
    [][ /\ ret'.op = "store" =>
              IF Cardinality(DOMAIN memories) + 1 > MaxSize
              THEN /\ Cardinality(ret'.evicted) = 1
                   /\ DOMAIN memories' = ((DOMAIN memories) \cup {ret'.id}) \ ret'.evicted
                   /\ ret'.evicted \subseteq (DOMAIN memories) \cup {ret'.id}
              ELSE /\ ret'.evicted = {}
                   /\ DOMAIN memories' = (DOMAIN memories) \cup {ret'.id}
        /\ ret'.op \in {"search", "get", "get_user_memories"} =>
              DOMAIN memories' = DOMAIN memories
        /\ ret'.op = "delete" =>
              DOMAIN memories' = (DOMAIN memories) \ {ret'.id} ]_vars

\* C7 witness: a store into a full store has evicted an entry and kept the
\* others.
C7_Witness ==
    /\ ret.op = "store"
    /\ Cardinality(ret.evicted) = 1
    /\ ret.id \notin ret.evicted
    /\ Cardinality(DOMAIN memories \ {ret.id}) = MaxSize - 1

\* C8: every store call returns an id, and it differs from every id returned
\* before, also from the ids of entries deleted, cleared or evicted since.
C8_IdsNeverReused ==
    /\ \A i, j \in 1..Len(issued) : i # j => issued[i] # issued[j]
    /\ ret.op = "store" => issued # <<>> /\ ret.id = issued[Len(issued)]

\* C8 witness: a store has returned an id after an earlier id's entry was
\* deleted, cleared or evicted.
C8_Witness ==
    /\ ret.op = "store"
    /\ \E i \in 1..(Len(issued) - 1) : issued[i] \notin DOMAIN memories

\* C9: a search returns (entry, score) pairs with every score at least
\* min_similarity, scores non-increasing, at most top_k of them, and they are
\* the top_k highest-scoring entries of the user that meet the threshold.
C9_SearchRanksAndTruncates ==
    SearchReturned =>
        LET res == ret.results
            match == Matching(ret.query, ret.user_id, ret.min_similarity)
            returned == { res[i].entry.id : i \in 1..Len(res) }
        IN /\ \A i \in 1..Len(res) : res[i].score >= ret.min_similarity
           /\ \A i, j \in 1..Len(res) : i < j => res[i].score >= res[j].score
           /\ Len(res) <= ret.top_k
           /\ Len(res) = IF ret.top_k < Cardinality(match)
                         THEN ret.top_k ELSE Cardinality(match)
           /\ Cardinality(returned) = Len(res)
           /\ returned \subseteq match
           /\ \A i \in 1..Len(res) :
                 res[i].score = CosineSimilarity(ret.query, res[i].entry.embedding)
           /\ \A i \in 1..Len(res) : \A id \in match \ returned :
                 res[i].score >= CosineSimilarity(ret.query, memories[id].embedding)

\* C9 witness: a search was cut off by top_k and returned an entry that was
\* stored after a lower-scoring match it left out.
C9_Witness ==
    /\ SearchReturned
    /\ Len(ret.results) = 1
    /\ \E id \in Matching(ret.query, ret.user_id, ret.min_similarity) :
          /\ id < ret.results[1].entry.id
          /\ CosineSimilarity(ret.query, memories[id].embedding) < ret.results[1].score

\* The entries, among those present when a store call evicts, created at the
\* same time as the evicted entry v.
TiedWith(v) ==
    { o \in DOMAIN AtEviction : AtEviction[o].created_at = AtEviction[v].created_at }

\* C10: a search adds exactly 1 to the access_count of every entry it returns
\* and stamps its last_accessed; and an eviction among entries of equal
\* created_at is decided by these counters: the first stored of them goes only
\* when the counters do not tell them apart.
C10_SearchCountsAccessesEvictionReadsThem ==
    [][ /\ (ret'.op = "search" /\ ~ret'.raised) =>
              \A i \in 1..Len(ret'.results) :
                  LET e == ret'.results[i].entry IN
                  /\ e.id \in DOMAIN memories
                  /\ e = memories'[e.id]
                  /\ e.access_count = memories[e.id].access_count + 1
                  /\ e.last_accessed = <<now>>
        /\ ret'.op = "store" =>
              \A v \in ret'.evicted :
                  (\A o \in TiedWith(v) :
                       AtEviction[o].access_count = AtEviction[v].access_count)
                  => \A o \in TiedWith(v) : v <= o ]_vars

\* C10 witness: an entry that a search had returned was evicted although an
\* entry stored before it, never returned, is still held.
C10_Witness ==
    /\ ret.op = "store"
    /\ \E v \in ret.evicted : \E o \in DOMAIN memories :
          /\ o < v
          /\ memories[o].access_count = 0
          /\ o # ret.id


\* ------------------------------------------- claims: the conversation window

\* C5: with k messages appended to a session of the volatile memory since it
\* was last empty, its history is the last min(k, N) of them in their order,
\* get_history returns exactly that, and get_message_count its length.
C5_VolatileWindowIsSuffix ==
    /\ \A s \in Sessions :
          /\ Stored(storage, s) = LastN(appended[s], MaxHistory)
          /\ Len(Stored(storage, s)) =
                IF Len(appended[s]) < MaxHistory THEN Len(appended[s]) ELSE MaxHistory
    /\ cret.op = "get_history" =>
          cret.result = LastN(appended[cret.session_id], MaxHistory)
    /\ cret.op = "get_message_count" =>
          cret.result = Len(LastN(appended[cret.session_id], MaxHistory))

\* C5 witness: get_history returned N messages of a session that had more
\* than N appended, and the dropped one differs from the one kept in its place.
C5_Witness ==
    /\ cret.op = "get_history"
    /\ Len(appended[cret.session_id]) > MaxHistory
    /\ Len(cret.result) = MaxHistory
    /\ cret.result[1] # appended[cret.session_id][1]

\* The append history of a session of the persisted memory: its rows in
\* insertion order.
Saved(session_id) == AsChatMessages(RowsOf(messages, session_id))

\* No two rows of the session carry the same timestamp.
DistinctTimestamps(session_id) ==
    LET rows == RowsOf(messages, session_id)
    IN \A i, j \in 1..Len(rows) : i # j => rows[i].timestamp # rows[j].timestamp

\* C4 (as claimed): after k save_message calls on a session,
\* get_recent_messages(session) returns the min(k, N) most recent messages,
\* oldest first.  Stated for the calls the database answers and for sessions
\* whose rows all have different timestamps, where the order is not in doubt.
C4_PersistedWindowIsMostRecent ==
    ( /\ pret.op = "get_recent_messages"
      /\ ~pret.db_error
      /\ pret.limit = 0
      /\ DistinctTimestamps(pret.session_id) )
    => pret.result = LastN(Saved(pret.session_id), MaxHistory)


\* ------------------------------------- claims: zero vectors, delete, clear

\* C11: a search with an all-zero query returns nothing, does not raise and
\* changes no entry; an entry whose embedding is all-zero is in no search
\* result, and no step changes its access_count.
C11_ZeroVectorsContributeNothing ==
    [][ /\ (ret'.op = "search" /\ Norm(ret'.query) = 0) =>
              /\ ~ret'.raised
              /\ ret'.results = <<>>
              /\ memories' = memories
        /\ ret'.op = "search" =>
              \A i \in 1..Len(ret'.results) :
                  Norm(ret'.results[i].entry.embedding) # 0
        /\ \A id \in (DOMAIN memories) \cap (DOMAIN memories') :
              Norm(memories[id].embedding) = 0 =>
                  memories'[id].access_count = memories[id].access_count ]_vars

\* C11 witness: a search returned an entry of a user who holds, earlier in
\* the index list, an entry with an all-zero embedding.
C11_Witness ==
    /\ SearchReturned
    /\ Len(ret.results) > 0
    /\ \E id \in DOMAIN memories :
          /\ memories[id].user_id = ret.user_id
          /\ Norm(memories[id].embedding) = 0
          /\ memories[id].access_count = 0
          /\ id < ret.results[1].entry.id

\* The ids of a sequence of entries.
IdsOf(entries) == { entries[i].id : i \in 1..Len(entries) }

\* The ids some store call has returned so far.
Issued == { issued[i] : i \in 1..Len(issued) }

\* C12: delete of an id the store does not hold returns False and changes
\* neither the entries nor the index; delete of a held id returns True, removes
\* that entry and its id from the owner's list and changes nothing else.  An id
\* once removed stays absent (so a second delete returns False), get reports
\* it absent, and get_user_memories and search return held entries only.
C12_DeleteRemovesEntryAndIndex ==
    [][ /\ ret'.op = "delete" =>
              IF ret'.id \notin DOMAIN memories
              THEN /\ ~ret'.found
                   /\ memories' = memories
                   /\ user_memories' = user_memories
              ELSE /\ ret'.found
                   /\ DOMAIN memories' = (DOMAIN memories) \ {ret'.id}
                   /\ \A o \in DOMAIN memories' : memories'[o] = memories[o]
                   /\ DOMAIN user_memories' = DOMAIN user_memories
                   /\ \A u \in DOMAIN user_memories :
                         user_memories'[u] = Without(user_memories[u], ret'.id)
                   /\ \A u \in DOMAIN user_memories' :
                         \A i \in 1..Len(user_memories'[u]) :
                             user_memories'[u][i] # ret'.id
        /\ \A id \in Issued \ DOMAIN memories : id \notin DOMAIN memories'
        /\ ret'.op = "get" =>
              ret'.found = (ret'.id \in DOMAIN memories)
        /\ ret'.op = "get_user_memories" =>
              IdsOf(ret'.entries) \subseteq DOMAIN memories
        /\ ret'.op = "search" =>
              { ret'.results[i].entry.id : i \in 1..Len(ret'.results) }
                  \subseteq DOMAIN memories ]_vars

\* C12 witness: a delete returned True for an entry whose owner still holds
\* another entry.
C12_Witness ==
    /\ ret.op = "delete"
    /\ ret.found
    /\ ret.id \in Issued
    /\ \E u \in DOMAIN user_memories : user_memories[u] # <<>>
    /\ DOMAIN memories # {}

\* The store after the step.
TheStoreAfter == [ memories |-> memories', user_memories |-> user_memories' ]

\* C13: clear_user(U) does not raise; it removes exactly the entries of U from
\* the entries' map and U from the index, leaves every other entry and every
\* other user's list as they were, after it get_user_memories(U) and every
\* search for U are empty, and it changes no entry when U holds none.
C13_ClearUserRemovesOnlyThatUser ==
    [][ ret'.op = "clear_user" =>
          LET U == ret'.user_id IN
          /\ ~ret'.raised
          /\ DOMAIN memories' = { id \in DOMAIN memories : memories[id].user_id # U }
          /\ \A id \in DOMAIN memories' : memories'[id] = memories[id]
          /\ U \notin DOMAIN user_memories'
          /\ \A u \in (DOMAIN user_memories) \ {U} :
                /\ u \in DOMAIN user_memories'
                /\ user_memories'[u] = user_memories[u]
          /\ UserMemories(TheStoreAfter, U) = <<>>
          /\ \A q \in Queries, k \in 0..MaxTopK, s \in MinSimilarities :
                SearchIn(TheStoreAfter, q, U, k, s, now).results = <<>>
          /\ ret'.removed = { id \in DOMAIN memories : memories[id].user_id = U }
          /\ (\A id \in DOMAIN memories : memories[id].user_id # U) =>
                memories' = memories ]_vars

\* C13 witness: clear_user removed a user's entries while another user's
\* entries stayed.
C13_Witness ==
    /\ ret.op = "clear_user"
    /\ ~ret.raised
    /\ ret.removed # {}
    /\ DOMAIN memories # {}

\* C14: the entry a store evicts is the one _evict_oldest's key puts first
\* among the entries of all users, whoever inserts; so a user's inserts can
\* remove another user's entries.
C14_EvictionIsGlobal ==
    [][ ret'.op = "store" =>
          \A v \in ret'.evicted :
              /\ \A o \in DOMAIN AtEviction :
                    ~KeyLess(EvictionKey(AtEviction[o]), EvictionKey(AtEviction[v]))
              /\ ret'.victims = { AtEviction[v].user_id } ]_vars

\* C14 witness: bob stored one entry, then only alice stored, and alice's
\* last store evicted bob's entry: bob's count dropped from 1 to 0.
C14_Witness ==
    /\ ret.op = "store"
    /\ ret.user_id = "alice"
    /\ ret.victims = {"bob"}
    /\ Len(issued) = MaxSize + 1
    /\ Cardinality(DOMAIN memories) = MaxSize
    /\ \A id \in DOMAIN memories : memories[id].user_id = "alice"
    /\ "bob" \in DOMAIN user_memories
    /\ user_memories["bob"] = <<>>

\* -------------------------------------------- claims: the semantic manager

\* The positions of the candidates should_store accepts, in candidate order.
RECURSIVE StorablePositions(_, _)
StorablePositions(candidates, i) ==
    IF i > Len(candidates) THEN <<>>
    ELSE IF ShouldStore(candidates[i])
    THEN <<i>> \o StorablePositions(candidates, i + 1)
    ELSE StorablePositions(candidates, i + 1)

\* The ids of the log entries of stored candidates, in log order.
RECURSIVE StoredIdsOf(_)
StoredIdsOf(log) ==
    IF log = <<>> THEN <<>>
    ELSE (IF Head(log).stored THEN Head(log).id ELSE <<>>) \o StoredIdsOf(Tail(log))

\* A coroutine of extract_and_store has returned or raised.
ExtractEnded(task) ==
    task.op = "extract_and_store" /\ task.pc = "done" /\ ~task.cancelled

\* C15: an extract_and_store that is not cancelled does not raise; it has
\* tried every candidate should_store accepts, in candidate order, whatever
\* failed before; each candidate whose embedding did not fail was stored under
\* a fresh id with the candidate's text for the caller's user; and the list
\* returned holds exactly the ids of the stored candidates in candidate order.
C15_BatchSurvivesCandidateFailure ==
    [][ \A t \in Tasks :
          /\ ExtractEnded(sem'[t]) =>
                /\ ~sem'[t].raised
                /\ [ k \in 1..Len(sem'[t].log) |-> sem'[t].log[k].i ]
                      = StorablePositions(sem'[t].candidates, 1)
                /\ sem'[t].result = StoredIdsOf(sem'[t].log)
          /\ ( /\ sem[t].op = "extract_and_store"
               /\ sem[t].pc = "embed"
               /\ Len(sem'[t].log) = Len(sem[t].log) + 1
               /\ sem'[t].log[Len(sem'[t].log)].stored ) =>
                LET id == sem'[t].log[Len(sem'[t].log)].id[1] IN
                /\ id \notin Issued
                /\ id \in DOMAIN memories'
                /\ memories'[id].text = sem[t].candidates[sem[t].i].text
                /\ memories'[id].user_id = sem[t].user_id ]_vars

\* C15 witness: an extract_and_store returned the id of a candidate it stored
\* after the storing of an earlier candidate had failed.
C15_Witness ==
    \E t \in Tasks :
        /\ ExtractEnded(sem[t])
        /\ Len(sem[t].log) = 2
        /\ ~sem[t].log[1].stored
        /\ sem[t].log[2].stored
        /\ sem[t].result = sem[t].log[2].id

\* C19: when a suspended extract_and_store is cancelled, the step changes no
\* entry, no index list and no id counter: what the call stored for the
\* candidates before the one it was waiting on stays stored.
C19_CancelRollsNothingBack ==
    [][ \A t \in Tasks :
          ( /\ sem[t].op = "extract_and_store"
            /\ sem[t].pc = "embed"
            /\ sem'[t].cancelled ) =>
              /\ memories' = memories
              /\ user_memories' = user_memories
              /\ next_id' = next_id
              /\ sem'[t].stored_ids = sem[t].stored_ids ]_vars

\* C19 witness: an extract_and_store was cancelled in the embedding of its
\* second candidate and the entry of its first candidate is in the store.
C19_Witness ==
    \E t \in Tasks :
        /\ sem[t].op = "extract_and_store"
        /\ sem[t].cancelled
        /\ sem[t].i = 2
        /\ Len(sem[t].stored_ids) = 1
        /\ sem[t].stored_ids[1] \in DOMAIN memories
        /\ memories[sem[t].stored_ids[1]].text = sem[t].candidates[1].text

\* How often id occurs in the list s.
Occurrences(s, id) == Cardinality({ i \in 1..Len(s) : s[i] = id })

\* C20: in every state concurrent chat turns can reach, every id of a user's
\* index list is the id of an entry of that user, and every entry's id is
\* exactly once in its owner's list and in no other list.
C20_IndexConsistent ==
    /\ \A u \in DOMAIN user_memories : \A i \in 1..Len(user_memories[u]) :
          /\ user_memories[u][i] \in DOMAIN memories
          /\ memories[user_memories[u][i]].user_id = u
    /\ \A id \in DOMAIN memories :
          /\ memories[id].user_id \in DOMAIN user_memories
          /\ \A u \in DOMAIN user_memories :
                Occurrences(user_memories[u], id)
                    = IF u = memories[id].user_id THEN 1 ELSE 0

\* C20 witness: two extract_and_store coroutines are suspended at the same
\* time, each after storing an entry, and both entries are in the store.
C20_Witness ==
    /\ \A t \in Tasks :
          /\ sem[t].op = "extract_and_store"
          /\ sem[t].pc = "embed"
          /\ Len(sem[t].stored_ids) = 1
          /\ sem[t].stored_ids[1] \in DOMAIN memories
    /\ sem["t1"].user_id # sem["t2"].user_id

\* A suspended coroutine of one of the operations ops ends in this step.
Ends(t, ops) == sem[t].op \in ops /\ sem[t].pc = "embed" /\ sem'[t].pc = "done"

\* C16: retrieve_relevant and get_context_for_query never raise.  When the
\* embedding failed (no search was made) or the search raised, retrieve_relevant
\* returns [] and get_context_for_query ""; otherwise retrieve_relevant returns
\* the entries of the search results in their order, and get_context_for_query
\* their formatting, which is "" exactly when nothing matched.
C16_RetrievalNeverRaises ==
    [][ \A t \in Tasks :
          Ends(t, { "retrieve_relevant", "get_context_for_query" }) =>
              /\ ~sem'[t].raised
              /\ sem'[t].failed => sem'[t].result = <<>>
              /\ ~sem'[t].failed =>
                    /\ ret'.op = "search"
                    /\ ~ret'.raised
                    /\ ret'.user_id = sem[t].user_id
                    /\ sem'[t].result =
                          IF sem[t].op = "retrieve_relevant"
                          THEN EntriesOf(ret'.results)
                          ELSE FormatMemoriesForPrompt(EntriesOf(ret'.results))
                    /\ (sem'[t].result = <<>>) = (ret'.results = <<>>) ]_vars

\* C16 witness: get_context_for_query returned "" because the search raised,
\* for a user who holds an entry the query would otherwise match.
C16_Witness ==
    \E t \in Tasks :
        /\ sem[t].op = "get_context_for_query"
        /\ sem[t].pc = "done"
        /\ sem[t].failed
        /\ ~sem[t].raised
        /\ sem[t].result = <<>>
        /\ ret.op = "search"
        /\ ret.raised
        /\ Matching(ret.query, ret.user_id, ret.min_similarity) # {}

\* C17: a store_memory whose embedding fails raises and leaves the entries,
\* the index, the id counter and the ids issued as they were; one that does not
\* raise has stored an entry and returns its fresh id.  There is no third
\* outcome: a call that stored nothing has raised.
C17_StoreMemoryFailsFast ==
    [][ \A t \in Tasks :
          Ends(t, { "store_memory" }) =>
              IF sem'[t].raised
              THEN /\ memories' = memories
                   /\ user_memories' = user_memories
                   /\ next_id' = next_id
                   /\ issued' = issued
                   /\ sem'[t].result = <<>>
              ELSE /\ sem'[t].result = <<next_id>>
                   /\ issued' = Append(issued, next_id)
                   /\ next_id' = next_id + 1
                   /\ ret'.op = "store"
                   /\ ret'.id = next_id
                   /\ ret'.entry.text = sem[t].text
                   /\ ret'.entry.user_id = sem[t].user_id ]_vars

\* C17 witness: a store_memory raised while the store holds entries.
C17_Witness ==
    \E t \in Tasks :
        /\ sem[t].op = "store_memory"
        /\ sem[t].pc = "done"
        /\ sem[t].raised
        /\ sem[t].result = <<>>
        /\ Cardinality(DOMAIN memories) = MaxSize
        /\ next_id < MaxStores

\* ------------------------------------------------------------ claims: the chat handler

\* C18 (as claimed): no failure of a memory tier during a chat turn (embedding,
\* semantic search, extraction and storage, history read, persistence write)
\* makes the chat operation fail: every turn that ends, ends with a response.
C18_ChatNeverFails ==
    \A t \in Tasks : chat[t].pc = "done" => chat[t].status = 200

\* ------------------------------------------- claims: the persisted count

\* The rows of the table that belong to the session, counted.
RowCount(table, session_id) ==
    Cardinality({ i \in 1..Len(table) : table[i].session_id = session_id })

\* C21: the persisted get_message_count(session) is the number of messages
\* saved for the session since its last clear_session, whatever max_history
\* is: a successful save_message adds one to the session's total, a successful
\* clear_session sets it to zero, nothing else changes it, a
\* get_message_count the database answers returns it, and a default
\* get_recent_messages returns at most max_history messages.
C21_PersistedCountIsTotal ==
    [][ \A s \in Sessions :
          /\ RowCount(messages', s) =
                IF pret'.op = "save_message" /\ ~pret'.raised /\ pret'.session_id = s
                THEN RowCount(messages, s) + 1
                ELSE IF pret'.op = "clear_session" /\ ~pret'.raised
                        /\ pret'.session_id = s
                THEN 0
                ELSE RowCount(messages, s)
          /\ ( pret'.op = "get_message_count" /\ ~pret'.db_error
               /\ pret'.session_id = s )
             => pret'.result = RowCount(messages, s)
          /\ ( pret'.op = "get_recent_messages" /\ pret'.limit = 0
               /\ pret'.session_id = s )
             => Len(pret'.result) <= MaxHistory
      ]_vars

\* C21 witness: get_message_count returned more than max_history.
C21_Witness ==
    /\ pret.op = "get_message_count"
    /\ ~pret.db_error
    /\ pret.result > MaxHistory
    /\ pret.result = RowCount(messages, pret.session_id)

\* ------------------------------------------- claims: the session lifecycle

\* What the volatile memory tells about a session that exists exactly when
\* exists is true.
Lifecycle(st, session_id, exists) ==
    /\ (session_id \in DOMAIN st) = exists
    /\ ~exists => Stored(st, session_id) = <<>>

\* C22: a session of the volatile memory exists exactly from its first
\* add_message until its clear.  Before the first append and after a clear
\* has_session is false, get_history is empty and the count 0; reads neither
\* create the session nor change anything; appends keep it existing; clear
\* ends it, and clear of a session that does not exist changes nothing.
C22_SessionLifecycle ==
    [][ /\ \A s \in Sessions :
              /\ Lifecycle(storage, s, appended[s] # <<>>)
              /\ Lifecycle(storage', s, appended'[s] # <<>>)
        /\ cret'.op = "add_message" =>
              /\ cret'.session_id \in DOMAIN storage'
              /\ \A s \in DOMAIN storage : s \in DOMAIN storage'
        /\ cret'.op \in { "get_history", "get_message_count", "has_session" } =>
              /\ storage' = storage
              /\ cret'.session_id \notin DOMAIN storage =>
                    cret'.result = CASE cret'.op = "get_history" -> <<>>
                                     [] cret'.op = "get_message_count" -> 0
                                     [] cret'.op = "has_session" -> FALSE
              /\ cret'.op = "has_session" =>
                    cret'.result = (cret'.session_id \in DOMAIN storage)
        /\ cret'.op = "clear" =>
              /\ cret'.session_id \notin DOMAIN storage'
              /\ \A s \in Sessions \ { cret'.session_id } :
                    Stored(storage', s) = Stored(storage, s)
                    /\ (s \in DOMAIN storage') = (s \in DOMAIN storage)
              /\ ~cret'.existed => storage' = storage
      ]_vars

\* C22 witness: a session that existed was cleared and is gone, while the
\* other session still exists.
C22_Witness ==
    /\ cret.op = "clear"
    /\ cret.existed
    /\ cret.session_id \notin DOMAIN storage
    /\ \E s \in Sessions : s \in DOMAIN storage

\* ------------------------------------------------------------ claims: the extractor

\* The ways to name, for each candidate in its order, a later and later turn
\* of msgs it was taken from.
Origins(msgs, candidates) ==
    { g \in [1..Len(candidates) -> 1..Len(msgs)] :
        /\ \A i, j \in 1..Len(candidates) : i < j => g[i] < g[j]
        /\ \A i \in 1..Len(candidates) :
              msgs[g[i]].content = candidates[i].source_message }

\* C23: extract_candidates takes candidates from user turns only, never from
\* an assistant turn nor from a user turn shorter than 10 characters, and at
\* most one from each user turn, in turn order: the candidates can be matched
\* one to one, in order, to user turns of at least 10 characters.
C23_CandidatesFromUserTurnsOnly ==
    ext.op = "extract_candidates" =>
        \E g \in Origins(ext.messages, ext.result) :
            \A i \in 1..Len(ext.result) :
                /\ ext.messages[g[i]].role = "user"
                /\ JoinedLength(Lexicon[ext.messages[g[i]].content].sentences) >= 10

\* C23 witness: an assistant turn whose content gives a candidate when a user
\* says it, followed by a user turn: the one candidate is the user's.
C23_Witness ==
    /\ ext.op = "extract_candidates"
    /\ Len(ext.messages) = 2
    /\ ext.messages[1].role = "assistant"
    /\ ext.messages[1].content = "I like hiking on weekends"
    /\ ext.messages[2].role = "user"
    /\ ext.messages[2].content = "My favorite tea is green tea."
    /\ Len(ext.result) = 1
    /\ ext.result[1].source_message = "My favorite tea is green tea."

\* The confidence the rules give, in thousandths: the factors of the question
\* and of the long text applied, in tenths, to the capped and boosted base.
RuleConfidence(k, strong, question, long) ==
    LET base == IF 500 + 200 * k > 1000 THEN 1000 ELSE 500 + 200 * k
        boosted == IF ~strong THEN base
                   ELSE IF base + 200 > 1000 THEN 1000 ELSE base + 200
        halved == (boosted * (IF question THEN 5 ELSE 10)) \div 10
    IN (halved * (IF long THEN 7 ELSE 10)) \div 10

\* C24: for k matched patterns, k in 0..10, and the three flags,
\* _calculate_confidence returns 0 when k = 0 and otherwise min(0.5 + 0.2k, 1),
\* then plus 0.2 capped at 1 for a strong phrase, then halved for a question,
\* then times 0.7 for a text longer than 200, in that order; the result is
\* within [0, 1].
C24_ConfidenceRules ==
    ext.op = "_calculate_confidence" =>
        LET f == ext.features
        IN /\ f.patterns = 0 => ext.result = 0
           /\ f.patterns > 0 =>
                 ext.result = RuleConfidence(f.patterns, f.strong, f.question,
                                             f.length > 200)
           /\ 0 <= ext.result /\ ext.result <= 1000

\* C24 witness: one pattern, a strong phrase, a question and a long text give
\* 0.9 * 0.5 * 0.7.
C24_Witness ==
    /\ ext.op = "_calculate_confidence"
    /\ ext.features.patterns = 1
    /\ ext.features.strong
    /\ ext.features.question
    /\ ext.features.length > 200
    /\ ext.result = 315

\* The confidence of a message content.
ConfidenceOf(content) == CalculateConfidence(FeaturesOf(Lexicon[content]))

\* C25: every candidate extract_candidates returns has confidence >=
\* min_confidence and passes should_store, so that extract_and_store goes on to
\* store each of them; a turn whose confidence is below min_confidence gives
\* no candidate, and so nothing to store.
C25_OneThresholdGatesBoth ==
    ext.op = "extract_candidates" =>
        /\ \A i \in 1..Len(ext.result) :
              /\ ext.result[i].confidence >= MinConfidence
              /\ ext.result[i].confidence = ConfidenceOf(ext.result[i].source_message)
              /\ ShouldStore(ext.result[i])
              /\ StorableFrom(ext.result, i) = i
        /\ \A j \in 1..Len(ext.messages) :
              ConfidenceOf(ext.messages[j].content) < MinConfidence =>
                  \A i \in 1..Len(ext.result) :
                      ext.result[i].source_message # ext.messages[j].content

\* C25 witness: of two user turns, the one with a confidence below the
\* threshold but above 0 gives nothing, the one exactly at the threshold gives
\* the only candidate.
C25_Witness ==
    /\ ext.op = "extract_candidates"
    /\ Len(ext.messages) = 2
    /\ ext.messages[1].role = "user"
    /\ ConfidenceOf(ext.messages[1].content) > 0
    /\ ConfidenceOf(ext.messages[1].content) < MinConfidence
    /\ ext.messages[2].role = "user"
    /\ Len(ext.result) = 1
    /\ ext.result[1].confidence = MinConfidence
    /\ ShouldStore(ext.result[1])

\* The length band of the specification: above 10, up to and including 200.
InBand(length) == 10 < length /\ length <= 200

\* C26 (as claimed): the extracted text is accepted exactly when its length
\* after the punctuation is trimmed is above 10 and at most 200.  Stated for
\* the texts of one sentence, where the first segment and the whole trimmed
\* text are the same: _extract_memory_text returns it exactly when its length
\* is in the band.
C26_LengthBandIncludes200 ==
    ( /\ ext.op = "_extract_memory_text"
      /\ Len(Lexicon[ext.text].sentences) = 1 )
    => LET f == FeaturesOf(Lexicon[ext.text])
       IN /\ (ext.result # <<>>) = InBand(f.cleaned.length)
          /\ ext.result # <<>> => ext.result = <<f.cleaned.text>>

\* The first segment that matches a pattern; <<>> without one.
RECURSIVE FirstMatching(_)
FirstMatching(segments) ==
    IF segments = <<>> THEN <<>>
    ELSE IF Head(segments).matches THEN <<Head(segments)>>
    ELSE FirstMatching(Tail(segments))

\* No segment of the text and not the whole text is exactly 200 long.
NoneAtTheUpperBound(f) ==
    /\ f.cleaned.length # 200
    /\ \A i \in 1..Len(f.segments) : f.segments[i].length # 200

\* C27 (as claimed): only the first segment that matches a pattern is
\* considered: it is returned when its length is in the band, otherwise the
\* whole trimmed text is when that fits the band, otherwise nothing; a later
\* matching segment is never returned.  Stated for the texts no part of which
\* is exactly 200 long, where the two readings of the band agree.
C27_OnlyFirstMatchingSegment ==
    ( /\ ext.op = "_extract_memory_text"
      /\ NoneAtTheUpperBound(FeaturesOf(Lexicon[ext.text])) )
    => LET f == FeaturesOf(Lexicon[ext.text])
           first == FirstMatching(f.segments)
       IN ext.result =
             IF first # <<>> /\ InBand(first[1].length) THEN <<first[1].text>>
             ELSE IF InBand(f.cleaned.length) THEN <<f.cleaned.text>>
             ELSE <<>>

\* ------------------------------------------------------------ claims: the prompt block

\* C28: format_memories_for_prompt returns the empty text for no memories; for
\* memories m1..mn it returns a header line, then exactly n lines 'i. mi.text'
\* numbered 1..n in the order of the input, then the instruction line.
C28_FormatEnumeratesInOrder ==
    ext.op = "format_memories_for_prompt" =>
        LET m == ext.memories
            out == ext.result
            n == Len(m)
        IN /\ (out = <<>>) = (m = <<>>)
           /\ m # <<>> =>
                 /\ Len(out) = n + 2
                 /\ out[1].kind = "header"
                 /\ out[n + 2].kind = "footer"
                 /\ \A i \in 1..n :
                       out[i + 1] = [ kind |-> "memory", n |-> i, text |-> m[i].text ]

\* C28 witness: three memories, two of them with the same text, formatted as
\* five lines.
C28_Witness ==
    /\ ext.op = "format_memories_for_prompt"
    /\ Len(ext.memories) = 3
    /\ ext.memories[1].text = ext.memories[3].text
    /\ ext.memories[1].text # ext.memories[2].text
    /\ Len(ext.result) = 5
    /\ ext.result[4].n = 3

\* ------------------------------------------------------------ claims: the two examples

\* The positions of the user turns of msgs that say content.
UserTurnsSaying(msgs, content) ==
    { j \in 1..Len(msgs) : msgs[j].role = "user" /\ msgs[j].content = content }

\* The positions of the candidates taken from content.
CandidatesFrom(candidates, content) ==
    { i \in 1..Len(candidates) : candidates[i].source_message = content }

\* C30: with min_confidence 0.5 a user turn 'I like hiking on weekends' gives
\* exactly one candidate, with confidence >= 0.7 and a text without trailing
\* punctuation; a user turn 'What time is it?' has confidence 0 and gives no
\* candidate.
C30_HikingYesQuestionNo ==
    ext.op = "extract_candidates" =>
        /\ Cardinality(CandidatesFrom(ext.result, "I like hiking on weekends")) =
              Cardinality(UserTurnsSaying(ext.messages, "I like hiking on weekends"))
        /\ \A i \in CandidatesFrom(ext.result, "I like hiking on weekends") :
              /\ ext.result[i].confidence >= 700
              /\ ext.result[i].text = Lexicon["I like hiking on weekends"].stripped
        /\ CandidatesFrom(ext.result, "What time is it?") = {}
        /\ ConfidenceOf("What time is it?") = 0

\* C30 witness: the two turns in one list give the one candidate of the first.
C30_Witness ==
    /\ ext.op = "extract_candidates"
    /\ ext.messages = << [role |-> "user", content |-> "I like hiking on weekends"],
                         [role |-> "user", content |-> "What time is it?"] >>
    /\ Len(ext.result) = 1
    /\ ext.result[1].text = "I like hiking on weekends"
    /\ ext.result[1].confidence = 900

\* ------------------------------------------------------------ claims: the round trip

\* The step is the answer to a retrieve_relevant(text, user_id) of task t made
\* right after a store_memory(text, user_id) succeeded: the last call of the
\* vector store was that store, its entry is still there, and the embedder
\* gives the query the embedding it gave the stored text.
RoundTrip(t) ==
    /\ sem[t].pc = "embed"
    /\ sem[t].op = "retrieve_relevant"
    /\ sem'[t].pc = "done"
    /\ ret.op = "store"
    /\ ret.user_id = sem[t].user_id
    /\ ret.entry.text = sem[t].text
    /\ ret.id \in DOMAIN memories
    /\ Norm(ret.entry.embedding) # 0
    /\ MinSimilarity <= 100
    /\ ret'.op = "search"
    /\ ret'.query = ret.entry.embedding

\* C29 (as claimed): with a deterministic embedder, a retrieve_relevant(t, U)
\* that follows a successful store_memory(t, U) with no operation in between
\* returns the entry just stored as its first element, when the entry was not
\* evicted, its embedding is not zero and min_similarity is at most 1.
C29_RoundTripReturnsStoredFirst ==
    [][ \A t \in Tasks :
          RoundTrip(t) =>
              /\ sem'[t].result # <<>>
              /\ sem'[t].result[1].id = ret.id
      ]_vars

\* ------------------------------------------------------------ claims: the frame of search

\* The ids of the entries a search returned; none when it raised.
ReturnedIds(r) == { r.results[i].entry.id : i \in 1..Len(r.results) }

\* C31 (as claimed): a search changes nothing in the store but access_count
\* and last_accessed of the entries it returns: no entry is added or removed,
\* no id, text, embedding, user_id or created_at changes, and every entry that
\* is not in the returned sequence, of another user or of the searched user,
\* also one that meets min_similarity and is cut off by top_k, stays as it was.
C31_SearchTouchesOnlyReturned ==
    [][ ret'.op = "search" =>
          /\ DOMAIN memories' = DOMAIN memories
          /\ user_memories' = user_memories
          /\ next_id' = next_id
          /\ \A id \in DOMAIN memories :
                /\ memories'[id].id = memories[id].id
                /\ memories'[id].text = memories[id].text
                /\ memories'[id].embedding = memories[id].embedding
                /\ memories'[id].user_id = memories[id].user_id
                /\ memories'[id].created_at = memories[id].created_at
                /\ id \notin ReturnedIds(ret') => memories'[id] = memories[id]
      ]_vars

\* ------------------------------------------------------------ claims: concurrent chat turns

\* C32 (as claimed): concurrent chat turns on one session are serialized with
\* respect to the persisted history: whenever a handler saves its assistant
\* reply, the row just before the new row is the row that same handler saved
\* for its user message, in every interleaving of two requests with the same
\* conversation_id.
C32_TurnsAreSerialized ==
    [][ \A t \in Tasks :
          ( /\ chat[t].pc = "generate"
            /\ chat'[t] # chat[t]
            /\ Len(messages') = Len(messages) + 1 )
          => /\ messages'[Len(messages')].role = "assistant"
             /\ chat[t].user_row = Len(messages)
      ]_vars

\* ------------------------------------------------------------ claims: the window handed to generation

\* C34 (as claimed): in every chat turn the list handed to the generation
\* step is a bounded window of the session: while the handler waits for the
\* context or for the provider, messages_for_ai has at most MaxHistory
\* (max_conversation_history) messages and its last element is the current
\* user message.
C34_GenerationGetsBoundedWindow ==
    \A t \in Tasks :
        chat[t].pc \in { "context", "generate" } =>
            /\ chat[t].messages_for_ai # <<>>
            /\ chat[t].messages_for_ai[Len(chat[t].messages_for_ai)]
                   = [role |-> "user", content |-> chat[t].message]
            /\ Len(chat[t].messages_for_ai) <= MaxHistory

\* ------------------------------------------------------------ claims: one entry per user message

\* The persisted user messages from which extract_candidates takes a candidate
\* that should_store accepts.
StorableUserRows ==
    { i \in 1..Len(messages) :
        /\ messages[i].role = "user"
        /\ StorableFrom(ExtractCandidates(<< [role |-> "user",
                                              content |-> messages[i].content] >>), 1) # 0 }

\* C36 (as claimed): across the chat turns of one session each storable user
\* message is stored in semantic memory at most once: the store has issued no
\* more ids than the session has storable user messages, also when an earlier
\* user turn is still in the history a later turn passes to extract_and_store.
C36_UserMessageStoredOnce == Len(issued) <= Cardinality(StorableUserRows)

\* ------------------------------------------------------------ claims: the size of a retrieval

\* The most entries retrieve_relevant may return for the top_k its caller
\* gave: top_k itself, zero included, and max_retrieved when it is omitted.
RetrievalLimit(top_k) == IF top_k = <<>> THEN MaxRetrieved ELSE top_k[1]

\* C37 (as claimed): retrieve_relevant(query, user, top_k) returns at most
\* top_k entries for every top_k >= 0 its caller gives (none for top_k = 0)
\* and at most max_retrieved entries when top_k is omitted, and the entries
\* keep the descending-score order of the store's search.
C37_RetrievalHonoursTopK ==
    [][ \A t \in Tasks :
          Ends(t, { "retrieve_relevant" }) =>
              /\ Len(sem'[t].result) <= RetrievalLimit(sem[t].top_k)
              /\ ~sem'[t].failed =>
                    /\ sem'[t].result = EntriesOf(ret'.results)
                    /\ \A i, j \in 1..Len(ret'.results) :
                          i < j => ret'.results[i].score >= ret'.results[j].score
      ]_vars

\* ------------------------------------------------------------ claims: a store keeps its own entry

VolatileView(st, b) ==
    [ history |-> Stored(st, b), count |-> Len(Stored(st, b)),
      has |-> b \in DOMAIN st ]

\* C33: operations on one session leave every other session unchanged, in the
\* volatile and in the persisted memory: a step changes what the volatile
\* memory answers about session b only when it is an add_message or clear on
\* b, and changes the rows of b, from which get_recent_messages,
\* get_message_count and has_session of b are answered, only when it is a
\* save_message or clear_session on b.
C33_SessionsAreIndependent ==
    [][ \A b \in Sessions :
          /\ VolatileView(storage', b) # VolatileView(storage, b) =>
                /\ cret'.op \in { "add_message", "clear" }
                /\ cret'.session_id = b
          /\ RowsOf(messages', b) # RowsOf(messages, b) =>
                /\ pret'.op \in { "save_message", "clear_session" }
                /\ pret'.session_id = b
      ]_vars

\* C33 witness: both sessions hold messages in both memories, the last
\* volatile operation cleared s1 and the last persisted one saved to s1, and
\* s2 still has its messages.
C33_Witness ==
    /\ cret.op = "clear"
    /\ cret.session_id = "s1"
    /\ cret.existed
    /\ VolatileView(storage, "s2").count > 0
    /\ ~VolatileView(storage, "s1").has
    /\ pret.op = "save_message"
    /\ pret.session_id = "s1"
    /\ ~pret.raised
    /\ RowsOf(messages, "s1") # <<>>
    /\ RowsOf(messages, "s2") # <<>>

=============================================================================
